---- MODULE Spec2Model ----
(***************************************************************************)
(* Model of the PostgreSQL -> MySQL migration validator: the type mapper   *)
(* (migrate.ts), the value normalizer and comparator, the row reconciler,  *)
(* the schema diff and the validation run (validate.ts).                   *)
(*                                                                         *)
(* JavaScript values are tagged records; the field k is the runtime kind.  *)
(* Dates, plain objects and buffers live on the heap: the field ref names  *)
(* the row the value was read into, so two such values are the same heap   *)
(* cell iff they agree in content and in ref.  Time is in milliseconds     *)
(* counted from 2001-01-01T00:00:00.000Z, so that 32-bit arithmetic covers *)
(* the first three weeks of that month; the local time of the host is UTC  *)
(* plus host.timeZone.                                                     *)
(***************************************************************************)
EXTENDS Integers, Sequences, FiniteSets, TLC

VARIABLES
    db,                 \* the two databases: table name -> table state
    host,               \* the host of the program: its time zone
    pc,                 \* position of the operation under way
    idx,                \* loop index of the operation under way
    countResults,       \* TableCountResult[] of validateTableCounts
    schemaResults,      \* SchemaValidationResult[] of validateSchema
    sampleDataResults,  \* {table, isValid}[] of runValidation
    trace,              \* what the operation evaluated, in order (console log)
    args,               \* arguments and locals of the function under evaluation
    ret                 \* value returned by the operation

vars == <<db, host, pc, idx, countResults, schemaResults, sampleDataResults,
          trace, args, ret>>

(***************************************************************************)
(* JavaScript values                                                       *)
(***************************************************************************)
Null == [k |-> "null"]
Undefined == [k |-> "undefined"]
Bool(b) == [k |-> "boolean", b |-> b]
Num(n) == [k |-> "number", nan |-> FALSE, n |-> n]
NaN == [k |-> "number", nan |-> TRUE, n |-> 0]
Str(s) == [k |-> "string", s |-> s]
DateAt(t, r) == [k |-> "date", valid |-> TRUE, t |-> t, ref |-> r]
InvalidDate(r) == [k |-> "date", valid |-> FALSE, t |-> 0, ref |-> r]
\* a plain object: kv is the sequence of <<key, number>> in insertion order;
\* ser is FALSE for an object JSON.stringify throws on (a BigInt member, a cycle)
Obj(kv, r) == [k |-> "object", kv |-> kv, ser |-> TRUE, ref |-> r]
Unserializable(r) == [k |-> "object", kv |-> <<>>, ser |-> FALSE, ref |-> r]
Buf(bytes, r) == [k |-> "buffer", bytes |-> bytes, ref |-> r]

\* the cell of a value created by the function under evaluation
Fresh == "fresh"

TypeOf(v) ==
    IF v.k \in {"null", "date", "object", "buffer"} THEN "object" ELSE v.k

IsNullish(v) == v.k \in {"null", "undefined"}
IsDate(v) == v.k = "date"

\* v1 === v2
StrictEq(v1, v2) ==
    IF v1.k # v2.k THEN FALSE
    ELSE IF v1.k \in {"date", "object", "buffer"}
         THEN v1 = v2 /\ v1.ref # Fresh     \* the same cell
    ELSE IF v1.k = "number" THEN ~v1.nan /\ ~v2.nan /\ v1.n = v2.n
    ELSE v1 = v2

Abs(n) == IF n < 0 THEN -n ELSE n

(***************************************************************************)
(* Date.prototype.toISOString and new Date(string)                         *)
(***************************************************************************)
Pad2(n) == IF n < 10 THEN "0" \o ToString(n) ELSE ToString(n)
Pad3(n) == IF n < 10 THEN "00" \o ToString(n)
           ELSE IF n < 100 THEN "0" \o ToString(n) ELSE ToString(n)

ToISOString(t) ==
    "2001-01-" \o Pad2(1 + (t \div 86400000))
        \o "T" \o Pad2((t % 86400000) \div 3600000)
        \o ":" \o Pad2((t % 3600000) \div 60000)
        \o ":" \o Pad2((t % 60000) \div 1000)
        \o "." \o Pad3(t % 1000) \o "Z"

\* the instants of the model
Instants == {0, 1, 3600000, 86400000, 86400001, 172800000}

\* the host whose local time is UTC; timeZone is the offset of local time
\* from UTC in milliseconds
UtcHost == [timeZone |-> 0]

Digits == "0123456789"

\* parseInt of a string of decimal digits
RECURSIVE ParseInt(_)
ParseInt(s) ==
    IF Len(s) = 0 THEN 0
    ELSE 10 * ParseInt(SubSeq(s, 1, Len(s) - 1))
         + ((CHOOSE d \in 1..10 : SubSeq(Digits, d, d) = SubSeq(s, Len(s), Len(s))) - 1)

IsDigits(s) ==
    \A i \in 1..Len(s) : \E d \in 1..10 : SubSeq(Digits, d, d) = SubSeq(s, i, i)

\* other spellings the date parser reads as UTC, with their instants
DateSpellings ==
    { <<"2001-01-01T00:00:00Z", 0>>,
      <<"2001-01-01", 0>>,
      <<"2001-01-02", 86400000>>,
      <<"2001-01-01T01:00:00+01:00", 0>>,
      <<"2001-01-03T00:00:00Z", 172800000>> }

\* spellings the legacy parser reads as local time, with their wall clock
LocalSpellings == { <<"1", 0>> }     \* January 2001

\* YYYY-MM-DD HH:MM:SS of January 2001, which the legacy parser reads as
\* local time
IsLocalDateTime(s) ==
    /\ Len(s) = 19
    /\ SubSeq(s, 1, 8) = "2001-01-"
    /\ SubSeq(s, 11, 11) = " " /\ SubSeq(s, 14, 14) = ":" /\ SubSeq(s, 17, 17) = ":"
    /\ IsDigits(SubSeq(s, 9, 10)) /\ IsDigits(SubSeq(s, 12, 13))
    /\ IsDigits(SubSeq(s, 15, 16)) /\ IsDigits(SubSeq(s, 18, 19))
    /\ ParseInt(SubSeq(s, 9, 10)) \in 1..31
    /\ ParseInt(SubSeq(s, 12, 13)) < 24
    /\ ParseInt(SubSeq(s, 15, 16)) < 60
    /\ ParseInt(SubSeq(s, 18, 19)) < 60

WallClock(s) ==
    1000 * (86400 * (ParseInt(SubSeq(s, 9, 10)) - 1)
            + 3600 * ParseInt(SubSeq(s, 12, 13))
            + 60 * ParseInt(SubSeq(s, 15, 16))
            + ParseInt(SubSeq(s, 18, 19)))

\* new Date(s).getTime(): valid is FALSE for NaN
DateParse(s) ==
    IF \E t \in Instants : ToISOString(t) = s
    THEN [valid |-> TRUE, t |-> CHOOSE t \in Instants : ToISOString(t) = s]
    ELSE IF \E p \in DateSpellings : p[1] = s
    THEN [valid |-> TRUE, t |-> (CHOOSE p \in DateSpellings : p[1] = s)[2]]
    ELSE IF \E p \in LocalSpellings : p[1] = s
    THEN [valid |-> TRUE,
          t |-> (CHOOSE p \in LocalSpellings : p[1] = s)[2] - host.timeZone]
    ELSE IF IsLocalDateTime(s)
    THEN [valid |-> TRUE, t |-> WallClock(s) - host.timeZone]
    ELSE [valid |-> FALSE, t |-> 0]

NewDate(s) ==
    LET p == DateParse(s)
    IN  IF p.valid THEN DateAt(p.t, Fresh) ELSE InvalidDate(Fresh)

(***************************************************************************)
(* JSON.stringify and JSON.parse                                           *)
(***************************************************************************)
RECURSIVE JoinMembers(_)
JoinMembers(kv) ==
    IF kv = <<>> THEN ""
    ELSE "\"" \o kv[1][1] \o "\":" \o ToString(kv[1][2])
         \o (IF Len(kv) > 1 THEN "," ELSE "") \o JoinMembers(Tail(kv))

RECURSIVE JoinBytes(_)
JoinBytes(bytes) ==
    IF bytes = <<>> THEN ""
    ELSE ToString(bytes[1]) \o (IF Len(bytes) > 1 THEN "," ELSE "")
         \o JoinBytes(Tail(bytes))

\* JSON.stringify(v): ok is FALSE when it throws
JsonStringify(v) ==
    CASE v.k = "null" -> [ok |-> TRUE, s |-> "null"]
      [] v.k = "boolean" -> [ok |-> TRUE, s |-> IF v.b THEN "true" ELSE "false"]
      [] v.k = "number" -> [ok |-> TRUE, s |-> IF v.nan THEN "null" ELSE ToString(v.n)]
      [] v.k = "string" -> [ok |-> TRUE, s |-> "\"" \o v.s \o "\""]
      [] v.k = "date" ->
            [ok |-> TRUE,
             s |-> IF v.valid THEN "\"" \o ToISOString(v.t) \o "\"" ELSE "null"]
      [] v.k = "object" ->
            IF v.ser THEN [ok |-> TRUE, s |-> "{" \o JoinMembers(v.kv) \o "}"]
            ELSE [ok |-> FALSE, s |-> ""]
      [] v.k = "buffer" ->
            [ok |-> TRUE,
             s |-> "{\"type\":\"Buffer\",\"data\":[" \o JoinBytes(v.bytes) \o "]}"]

\* the member lists of the model's plain objects
Members ==
    { <<>>, << <<"a", 1>> >>, << <<"a", 2>> >>,
      << <<"a", 1>>, <<"b", 2>> >>, << <<"b", 2>>, <<"a", 1>> >> }

\* the values whose JSON text the model's strings can hold
JsonValues ==
    {Null, Bool(TRUE), Bool(FALSE)} \cup {Num(n) : n \in 0..2}
        \cup {Obj(m, Fresh) : m \in Members}

\* JSON texts with insignificant white space
JsonSpellings ==
    { <<"{ \"a\": 1 }", Obj(<< <<"a", 1>> >>, Fresh)>> }

\* JSON.parse(s): ok is FALSE when it throws
JsonParse(s) ==
    IF \E v \in JsonValues : JsonStringify(v).s = s
    THEN [ok |-> TRUE, v |-> CHOOSE v \in JsonValues : JsonStringify(v).s = s]
    ELSE IF \E p \in JsonSpellings : p[1] = s
    THEN [ok |-> TRUE, v |-> (CHOOSE p \in JsonSpellings : p[1] = s)[2]]
    ELSE [ok |-> FALSE, v |-> Undefined]

(***************************************************************************)
(* Value normalizer and comparator (validate.ts)                           *)
(***************************************************************************)
\* the boolean rule with loose equality, value == 1 || value == true, where
\* the code compares strictly
normalizeBooleanLoose(value) ==
    Bool(\/ StrictEq(value, Num(1))
         \/ StrictEq(value, Bool(TRUE))
         \/ (value.k = "string" /\ value.s = "1"))

\* the boolean rule testing for the number 1 alone
normalizeBooleanNumberOnly(value) == Bool(StrictEq(value, Num(1)))

normalizeBoolean(value) ==
    Bool(StrictEq(value, Num(1)) \/ StrictEq(value, Bool(TRUE)))

\* the string-reference rule serializing the reference, where the code parses it
normalizeJsonReferenceSerialized(referenceValue) ==
    LET j == JsonStringify(referenceValue)
    IN  IF j.ok THEN Str(j.s) ELSE referenceValue

normalizeJsonReference(referenceValue) ==
    LET p == JsonParse(referenceValue.s)
    IN  IF p.ok THEN p.v ELSE referenceValue

\* an exception that leaves the function under evaluation
Raised == [k |-> "exception"]

\* normalizeValue with its two JSON.parse calls outside a try
normalizeValueUnguarded(value, referenceValue) ==
    IF IsNullish(value) \/ IsNullish(referenceValue) THEN value
    ELSE IF TypeOf(referenceValue) = "boolean" THEN normalizeBoolean(value)
    ELSE IF IsDate(referenceValue)
         THEN IF TypeOf(value) = "string" THEN NewDate(value.s) ELSE value
    ELSE IF TypeOf(referenceValue) = "object" /\ TypeOf(value) = "string"
         THEN LET p == JsonParse(value.s) IN IF p.ok THEN p.v ELSE Raised
    ELSE IF TypeOf(referenceValue) = "string" /\ TypeOf(value) = "object"
         THEN LET p == JsonParse(referenceValue.s) IN IF p.ok THEN p.v ELSE Raised
    ELSE value

\* normalizeValue with the structured-data rule ahead of the date rule
normalizeValueStructuredFirst(value, referenceValue) ==
    IF IsNullish(value) \/ IsNullish(referenceValue) THEN value
    ELSE IF TypeOf(referenceValue) = "boolean" THEN normalizeBoolean(value)
    ELSE IF TypeOf(referenceValue) = "object" /\ TypeOf(value) = "string"
         THEN LET p == JsonParse(value.s) IN IF p.ok THEN p.v ELSE value
    ELSE IF IsDate(referenceValue)
         THEN IF TypeOf(value) = "string" THEN NewDate(value.s) ELSE value
    ELSE IF TypeOf(referenceValue) = "string" /\ TypeOf(value) = "object"
         THEN normalizeJsonReference(referenceValue)
    ELSE value

normalizeValue(value, referenceValue) ==
    IF IsNullish(value) \/ IsNullish(referenceValue) THEN value
    ELSE IF TypeOf(referenceValue) = "boolean" THEN normalizeBoolean(value)
    ELSE IF IsDate(referenceValue)
         THEN IF TypeOf(value) = "string" THEN NewDate(value.s) ELSE value
    ELSE IF TypeOf(referenceValue) = "object" /\ TypeOf(value) = "string"
         THEN LET p == JsonParse(value.s) IN IF p.ok THEN p.v ELSE value
    ELSE IF TypeOf(referenceValue) = "string" /\ TypeOf(value) = "object"
         THEN normalizeJsonReference(referenceValue)
    ELSE value

DateToleranceMs == 86400000
TimestampToleranceMs == 86400000

\* the tolerance test with half a day where the code has a day
areDatesEqualHalfDay(value1, value2) ==
    /\ IsDate(value1) /\ IsDate(value2)
    /\ value1.valid /\ value2.valid
    /\ Abs(value1.t - value2.t) <= 43200000

\* the tolerance test with < where the code has <=
areDatesEqualStrict(value1, value2) ==
    /\ IsDate(value1) /\ IsDate(value2)
    /\ value1.valid /\ value2.valid
    /\ Abs(value1.t - value2.t) < DateToleranceMs

areDatesEqual(value1, value2) ==
    /\ IsDate(value1) /\ IsDate(value2)
    /\ value1.valid /\ value2.valid       \* NaN <= n is false
    /\ Abs(value1.t - value2.t) <= DateToleranceMs

\* structural equality that ignores the order of the members
areObjectsEqualUnordered(value1, value2) ==
    /\ TypeOf(value1) = "object" /\ TypeOf(value2) = "object"
    /\ value1.k # "null" /\ value2.k # "null"
    /\ JsonStringify(value1).ok /\ JsonStringify(value2).ok
    /\ IF value1.k = "object" /\ value2.k = "object"
       THEN {value1.kv[i] : i \in DOMAIN value1.kv}
                = {value2.kv[i] : i \in DOMAIN value2.kv}
       ELSE JsonStringify(value1).s = JsonStringify(value2).s

areObjectsEqual(value1, value2) ==
    /\ TypeOf(value1) = "object" /\ TypeOf(value2) = "object"
    /\ value1.k # "null" /\ value2.k # "null"
    /\ JsonStringify(value1).ok /\ JsonStringify(value2).ok
    /\ JsonStringify(value1).s = JsonStringify(value2).s

\* String.prototype.includes
Includes(s, sub) ==
    \E i \in 1..(Len(s) - Len(sub) + 1) : SubSeq(s, i, i + Len(sub) - 1) = sub

\* the timestamp-string rule without the column-name test
areTimestampStringsEqualAnyColumn(value1, value2, columnName) ==
    /\ TypeOf(value1) = "string" /\ TypeOf(value2) = "string"
    /\ DateParse(value1.s).valid /\ DateParse(value2.s).valid
    /\ Abs(DateParse(value1.s).t - DateParse(value2.s).t) <= TimestampToleranceMs

areTimestampStringsEqual(value1, value2, columnName) ==
    /\ TypeOf(value1) = "string" /\ TypeOf(value2) = "string"
    /\ Includes(columnName, "_at") \/ Includes(columnName, "date")
    /\ DateParse(value1.s).valid /\ DateParse(value2.s).valid
    /\ Abs(DateParse(value1.s).t - DateParse(value2.s).t) <= TimestampToleranceMs

\* the comparator without its first test, value1 === value2
areValuesEqualWithoutIdentity(value1, value2, columnName) ==
    \/ IsNullish(value1) /\ IsNullish(value2)
    \/ areDatesEqual(value1, value2)
    \/ areObjectsEqual(value1, value2)
    \/ areTimestampStringsEqual(value1, value2, columnName)

areValuesEqual(value1, value2, columnName) ==
    \/ StrictEq(value1, value2)
    \/ IsNullish(value1) /\ IsNullish(value2)
    \/ areDatesEqual(value1, value2)
    \/ areObjectsEqual(value1, value2)
    \/ areTimestampStringsEqual(value1, value2, columnName)

(***************************************************************************)
(* Type mapper (migrate.ts)                                                *)
(***************************************************************************)
\* ToBoolean of a number | null argument
Truthy(v) ==
    CASE v.k \in {"null", "undefined"} -> FALSE
      [] v.k = "number" -> ~v.nan /\ v.n # 0
      [] v.k = "boolean" -> v.b
      [] v.k = "string" -> v.s # ""
      [] OTHER -> TRUE

VarcharOrText(maxLength) ==
    IF Truthy(maxLength) THEN "VARCHAR(" \o ToString(maxLength.n) \o ")" ELSE "TEXT"

DecimalDeclaration(precision, scale) ==
    IF Truthy(precision) /\ Truthy(scale)
    THEN "DECIMAL(" \o ToString(precision.n) \o "," \o ToString(scale.n) \o ")"
    ELSE "DECIMAL(10,2)"

\* the own properties of the typeMap literal
typeMap(maxLength, precision, scale) ==
    [ bigint |-> "BIGINT",
      integer |-> "BIGINT",
      smallint |-> "SMALLINT",
      boolean |-> "BOOLEAN",
      text |-> "TEXT",
      varchar |-> VarcharOrText(maxLength),
      date |-> "DATE",
      time |-> "TIME",
      decimal |-> DecimalDeclaration(precision, scale),
      numeric |-> DecimalDeclaration(precision, scale),
      real |-> "FLOAT",
      json |-> "JSON",
      jsonb |-> "JSON",
      uuid |-> "VARCHAR(36)",
      bytea |-> "LONGBLOB" ]
    @@ ("character varying" :> VarcharOrText(maxLength))
    @@ ("timestamp without time zone" :> "DATETIME")
    @@ ("timestamp with time zone" :> "DATETIME")
    @@ ("double precision" :> "DOUBLE")

\* property names every object literal inherits from Object.prototype
InheritedKeys == {"constructor", "toString", "valueOf", "hasOwnProperty"}

\* typeMap[pgType] || 'TEXT'
mapPostgresToMysqlType(pgType, maxLength, precision, scale) ==
    LET m == typeMap(maxLength, precision, scale)
    IN  IF pgType \in DOMAIN m THEN Str(m[pgType])
        ELSE IF pgType \in InheritedKeys
             THEN [k |-> "function", ref |-> "Object.prototype." \o pgType]
        ELSE Str("TEXT")

(***************************************************************************)
(* The two databases.  A table is a record                                 *)
(*   name          table_name                                              *)
(*   exists        the table exists in MySQL                               *)
(*   metadata      "ok", or "fails" when its information_schema query      *)
(*                 raises                                                  *)
(*   pgColumns     column names of the PostgreSQL table, by position       *)
(*   mysqlColumns  column names of the MySQL table, by position            *)
(*   pgRows        rows of the PostgreSQL table, ORDER BY id               *)
(*   mysqlRows     rows of the MySQL table, ORDER BY id                    *)
(* and a row is the sequence of its <<column, value>> entries.  The        *)
(* variable db holds the tables in the order of table_name and, in         *)
(* showTables and informationSchema, whether MySQL answers SHOW TABLES and *)
(* the information_schema.tables query ("ok") or raises ("fails").         *)
(***************************************************************************)
Min(a, b) == IF a < b THEN a ELSE b

\* row[key]
Get(row, key) ==
    IF \E i \in DOMAIN row : row[i][1] = key
    THEN row[CHOOSE i \in DOMAIN row : row[i][1] = key][2]
    ELSE Undefined

\* Array.prototype.filter(...).length
CountIf(q, Test(_)) == Cardinality({i \in DOMAIN q : Test(q[i])})

\* the row of id i as PostgreSQL returns it, as migrateData writes it, and
\* with a column that lost its value
PgRow(i) == << <<"id", Num(i)>>, <<"active", Bool(TRUE)>> >>
MysqlRow(i) == << <<"id", Num(i)>>, <<"active", Num(1)>> >>
MysqlRowDiffering(i) == << <<"id", Num(i)>>, <<"active", Num(0)>> >>
MysqlRowWithoutColumn(i) == << <<"id", Num(i)>> >>

\* the value migrateData hands to the INSERT for a value read from
\* PostgreSQL (migrate.ts): ok is FALSE when the conversion throws
convertValue(value) ==
    IF IsNullish(value) THEN [ok |-> TRUE, v |-> Null]
    ELSE IF TypeOf(value) = "boolean"
         THEN [ok |-> TRUE, v |-> IF value.b THEN Num(1) ELSE Num(0)]
    ELSE IF IsDate(value)
         THEN IF value.valid
              THEN [ok |-> TRUE,
                    v |-> Str(SubSeq(ToISOString(value.t), 1, 10) \o " "
                                \o SubSeq(ToISOString(value.t), 12, 19))]
              ELSE [ok |-> FALSE, v |-> Undefined]      \* RangeError
    ELSE IF TypeOf(value) = "object"
         THEN [ok |-> JsonStringify(value).ok, v |-> Str(JsonStringify(value).s)]
    ELSE [ok |-> TRUE, v |-> value]

\* the row migrateData inserts for a source row
MigratedRow(pgRow) ==
    [i \in DOMAIN pgRow |-> <<pgRow[i][1], convertValue(pgRow[i][2]).v>>]

(***************************************************************************)
(* Row reconciler (validate.ts)                                            *)
(***************************************************************************)
SampleSize == 5
MaxSampledTables == 5

\* SELECT * FROM t ORDER BY id LIMIT sampleSize
getSampleData(table, sampleSize) ==
    SubSeq(table.pgRows, 1, Min(sampleSize, Len(table.pgRows)))

\* SELECT * FROM t WHERE id IN (ids) ORDER BY id
getCorrespondingMySQLData(table, ids) ==
    SelectSeq(table.mysqlRows, LAMBDA row : Get(row, "id") \in ids)

\* formatValueForDisplay(value): ok is FALSE when it throws, on an invalid
\* date (toISOString) and on a value JSON.stringify throws on
formatValueForDisplay(value) ==
    IF IsNullish(value) THEN [ok |-> TRUE, s |-> "null"]
    ELSE IF IsDate(value)
         THEN IF value.valid THEN [ok |-> TRUE, s |-> ToISOString(value.t)]
              ELSE [ok |-> FALSE, s |-> ""]
    ELSE IF TypeOf(value) = "object" THEN JsonStringify(value)
    ELSE [ok |-> TRUE, s |-> ""]       \* String(value), not modelled

\* the outcomes of compareRowData: it returns a boolean, or it throws while
\* it reports a mismatch
Returns(b) == [threw |-> FALSE, result |-> b]
Throws == [threw |-> TRUE, result |-> FALSE]

\* what compareRowData does at a column whose values are not equal
reportMismatch(pgValue, normalizedMysqlValue) ==
    IF formatValueForDisplay(pgValue).ok
            /\ formatValueForDisplay(normalizedMysqlValue).ok
    THEN Returns(FALSE)
    ELSE Throws

\* the row comparison leaving the id column out
RECURSIVE compareRowDataSkippingId(_, _)
compareRowDataSkippingId(pgRow, mysqlRow) ==
    IF pgRow = <<>> THEN Returns(TRUE)
    ELSE LET key == pgRow[1][1]
             pgValue == pgRow[1][2]
             normalizedMysqlValue == normalizeValue(Get(mysqlRow, key), pgValue)
         IN  IF key = "id" \/ areValuesEqual(pgValue, normalizedMysqlValue, key)
             THEN compareRowDataSkippingId(Tail(pgRow), mysqlRow)
             ELSE reportMismatch(pgValue, normalizedMysqlValue)

\* the row comparison going through the columns of the target row too
RECURSIVE compareRowDataBothWays(_, _)
compareRowDataBothWays(pgRow, mysqlRow) ==
    IF pgRow = <<>>
    THEN Returns(mysqlRow = <<>>)
    ELSE LET key == pgRow[1][1]
             pgValue == pgRow[1][2]
             normalizedMysqlValue == normalizeValue(Get(mysqlRow, key), pgValue)
         IN  IF areValuesEqual(pgValue, normalizedMysqlValue, key)
             THEN compareRowDataBothWays(
                      Tail(pgRow), SelectSeq(mysqlRow, LAMBDA c : c[1] # key))
             ELSE reportMismatch(pgValue, normalizedMysqlValue)

RECURSIVE compareRowData(_, _)
compareRowData(pgRow, mysqlRow) ==
    IF pgRow = <<>> THEN Returns(TRUE)
    ELSE LET key == pgRow[1][1]
             pgValue == pgRow[1][2]
             normalizedMysqlValue == normalizeValue(Get(mysqlRow, key), pgValue)
         IN  IF areValuesEqual(pgValue, normalizedMysqlValue, key)
             THEN compareRowData(Tail(pgRow), mysqlRow)
             ELSE reportMismatch(pgValue, normalizedMysqlValue)

\* the comparison loop going on to the next row after a row that differs
RECURSIVE compareRowsExhaustive(_, _, _)
compareRowsExhaustive(pgRows, mysqlRows, i) ==
    IF i > Len(pgRows) THEN [isValid |-> TRUE, log |-> <<>>]
    ELSE IF i > Len(mysqlRows) THEN [isValid |-> FALSE, log |-> <<>>]
    ELSE LET same == compareRowData(pgRows[i], mysqlRows[i]).result
             entry == [id |-> Get(pgRows[i], "id"), equal |-> same]
             rest == compareRowsExhaustive(pgRows, mysqlRows, i + 1)
         IN  [isValid |-> same /\ rest.isValid, log |-> <<entry>> \o rest.log]

\* the comparison loop from row i on: isValid is the value returned, log the
\* rows handed to compareRowData with the outcome of each.  A comparison
\* that returns false ends the loop, and so does one that throws, through
\* the catch of sampleDataValidation, which returns false too.
RECURSIVE compareRows(_, _, _)
compareRows(pgRows, mysqlRows, i) ==
    IF i > Len(pgRows) THEN [isValid |-> TRUE, log |-> <<>>]
    ELSE IF i > Len(mysqlRows) THEN [isValid |-> FALSE, log |-> <<>>]
    ELSE LET same == compareRowData(pgRows[i], mysqlRows[i]).result
             entry == [id |-> Get(pgRows[i], "id"), equal |-> same]
             rest == compareRows(pgRows, mysqlRows, i + 1)
         IN  IF same
             THEN [isValid |-> rest.isValid, log |-> <<entry>> \o rest.log]
             ELSE [isValid |-> FALSE, log |-> <<entry>>]

\* sampleDataValidation reading the target before it looks at the sample
sampleDataValidationTargetFirst(table, sampleSize) ==
    LET pgRows == getSampleData(table, sampleSize)
        ids == {Get(pgRows[i], "id") : i \in DOMAIN pgRows}
    IN  IF ~table.exists THEN [isValid |-> FALSE, log |-> <<>>]
        ELSE IF Len(pgRows) = 0 THEN [isValid |-> TRUE, log |-> <<>>]
        ELSE compareRows(pgRows, getCorrespondingMySQLData(table, ids), 1)

sampleDataValidation(table, sampleSize) ==
    LET pgRows == getSampleData(table, sampleSize)
        ids == {Get(pgRows[i], "id") : i \in DOMAIN pgRows}
    IN  IF Len(pgRows) = 0 THEN [isValid |-> TRUE, log |-> <<>>]
        ELSE IF ~table.exists THEN [isValid |-> FALSE, log |-> <<>>]  \* catch
        ELSE compareRows(pgRows, getCorrespondingMySQLData(table, ids), 1)

(***************************************************************************)
(* Row counts (validate.ts)                                                *)
(***************************************************************************)
\* SELECT COUNT(*): PostgreSQL answers with a string, MySQL with a number
PgCount(table) == ToString(Len(table.pgRows))
MysqlCount(table) == Len(table.mysqlRows)

\* the count comparison forgiving a difference of one row
countTableTolerant(table) ==
    IF ~table.exists
    THEN [table |-> table.name, postgresCount |-> Str("ERROR"),
          mysqlCount |-> Str("ERROR"), match |-> FALSE]
    ELSE LET pgCount == Num(ParseInt(PgCount(table)))
             mysqlCount == Num(MysqlCount(table))
         IN  [table |-> table.name, postgresCount |-> pgCount,
              mysqlCount |-> mysqlCount,
              match |-> Abs(pgCount.n - mysqlCount.n) <= 1]

\* the catch of the loop recording the failed table as matching
countTableErrorMatches(table) ==
    IF ~table.exists
    THEN [table |-> table.name, postgresCount |-> Str("ERROR"),
          mysqlCount |-> Str("ERROR"), match |-> TRUE]
    ELSE LET pgCount == Num(ParseInt(PgCount(table)))
             mysqlCount == Num(MysqlCount(table))
         IN  [table |-> table.name, postgresCount |-> pgCount,
              mysqlCount |-> mysqlCount, match |-> StrictEq(pgCount, mysqlCount)]

\* one iteration of the loop of validateTableCounts
countTable(table) ==
    IF ~table.exists        \* the MySQL query raises: catch
    THEN [table |-> table.name, postgresCount |-> Str("ERROR"),
          mysqlCount |-> Str("ERROR"), match |-> FALSE]
    ELSE LET pgCount == Num(ParseInt(PgCount(table)))
             mysqlCount == Num(MysqlCount(table))
         IN  [table |-> table.name, postgresCount |-> pgCount,
              mysqlCount |-> mysqlCount, match |-> StrictEq(pgCount, mysqlCount)]

\* one iteration of the loop of validateMigration (migrate.ts): SHOW TABLES
\* LIKE first, then the two counts
validateMigrationTable(table) ==
    IF ~table.exists
    THEN [table |-> table.name, postgresCount |-> Str("ERROR"),
          mysqlCount |-> Str("ERROR"), isValid |-> FALSE]
    ELSE LET pgCount == Num(ParseInt(PgCount(table)))
             mysqlCount == Num(MysqlCount(table))
         IN  [table |-> table.name, postgresCount |-> pgCount,
              mysqlCount |-> mysqlCount, isValid |-> StrictEq(pgCount, mysqlCount)]

(***************************************************************************)
(* Schema diff (validate.ts)                                               *)
(***************************************************************************)
UpperCase == "ABCDEFGHIJKLMNOPQRSTUVWXYZ"
LowerCase == "abcdefghijklmnopqrstuvwxyz"

LowerChar(c) ==
    IF \E i \in 1..Len(UpperCase) : SubSeq(UpperCase, i, i) = c
    THEN LET i == CHOOSE i \in 1..Len(UpperCase) : SubSeq(UpperCase, i, i) = c
         IN  SubSeq(LowerCase, i, i)
    ELSE c

RECURSIVE ToLowerCase(_)
ToLowerCase(s) ==
    IF Len(s) = 0 THEN ""
    ELSE LowerChar(SubSeq(s, 1, 1)) \o ToLowerCase(SubSeq(s, 2, Len(s)))

\* the table names getMysqlTableList returns: SHOW TABLES, else
\* information_schema, else nothing
getMysqlTableList(database) ==
    LET present == SelectSeq(database.tables, LAMBDA t : t.exists)
        names == [i \in DOMAIN present |-> present[i].name]
    IN  IF database.showTables = "ok" /\ Len(names) > 0 THEN names
        ELSE IF database.informationSchema = "ok" THEN names
        ELSE <<>>

InSeq(x, q) == \E i \in DOMAIN q : q[i] = x

\* every source table, in the target list or not
commonTablesUnfiltered(database) == database.tables

\* the tables validateSchema hands to validateCommonTables
commonTables(database) ==
    SelectSeq(database.tables,
              LAMBDA t : InSeq(t.name, getMysqlTableList(database)))

missingInMySQL(database) ==
    SelectSeq(database.tables,
              LAMBDA t : ~InSeq(t.name, getMysqlTableList(database)))

\* the column loop comparing the names as they are spelled
RECURSIVE missingColumnsCaseSensitive(_, _)
missingColumnsCaseSensitive(table, i) ==
    IF i > Len(table.pgColumns) THEN <<>>
    ELSE LET found == \E j \in DOMAIN table.mysqlColumns :
                         table.mysqlColumns[j] = table.pgColumns[i]
         IN  (IF found THEN <<>>
              ELSE << [table |-> table.name, status |-> "column_missing",
                       issue |-> table.pgColumns[i]] >>)
             \o missingColumnsCaseSensitive(table, i + 1)

\* the column loop of validateTableSchema from column i on
RECURSIVE missingColumns(_, _)
missingColumns(table, i) ==
    IF i > Len(table.pgColumns) THEN <<>>
    ELSE LET found == \E j \in DOMAIN table.mysqlColumns :
                         ToLowerCase(table.mysqlColumns[j])
                             = ToLowerCase(table.pgColumns[i])
         IN  (IF found THEN <<>>
              ELSE << [table |-> table.name, status |-> "column_missing",
                       issue |-> table.pgColumns[i]] >>)
             \o missingColumns(table, i + 1)

\* validateTableSchema answering "no issues" after a metadata query failed
validateTableSchemaErrorUnflagged(table) ==
    IF table.metadata = "fails"
    THEN [hasIssues |-> FALSE,
          entries |-> << [table |-> table.name, status |-> "error",
                          issue |-> "Schema validation error"] >>]
    ELSE IF Len(table.mysqlColumns) = 0
    THEN [hasIssues |-> TRUE,
          entries |-> << [table |-> table.name, status |-> "table_missing",
                          issue |-> table.name] >>]
    ELSE LET missing == missingColumns(table, 1)
         IN  [hasIssues |-> missing # <<>>, entries |-> missing]

\* validateTableSchema: the entries it pushes and the value it returns
validateTableSchema(table) ==
    IF table.metadata = "fails"
    THEN [hasIssues |-> TRUE,
          entries |-> << [table |-> table.name, status |-> "error",
                          issue |-> "Schema validation error"] >>]
    ELSE IF Len(table.mysqlColumns) = 0
    THEN [hasIssues |-> TRUE,
          entries |-> << [table |-> table.name, status |-> "table_missing",
                          issue |-> table.name] >>]
    ELSE LET missing == missingColumns(table, 1)
         IN  [hasIssues |-> missing # <<>>, entries |-> missing]

\* one iteration of the loop of validateCommonTables
validateCommonTable(table) ==
    LET r == validateTableSchema(table)
    IN  IF r.hasIssues THEN r.entries
        ELSE r.entries \o << [table |-> table.name, status |-> "ok", issue |-> ""] >>

\* validateCommonTables: the results of the whole loop
RECURSIVE validateCommonTables(_)
validateCommonTables(tables) ==
    IF tables = <<>> THEN <<>>
    ELSE validateCommonTable(tables[1]) \o validateCommonTables(Tail(tables))

(***************************************************************************)
(* runValidation: the counts of every table, then the schema of the common *)
(* tables, then the sample of the first tables with data, then the summary *)
(***************************************************************************)
NumTables == 2
MaxRows == 2

Append1(q, x) == q \o <<x>>

\* the tables sampled whatever their counts
tablesWithDataAnyCount(results) ==
    LET withData == SelectSeq(results,
            LAMBDA r : r.postgresCount.k = "number" /\ r.postgresCount.n > 0)
    IN  [i \in 1..Min(MaxSampledTables, Len(withData)) |-> withData[i].table]

\* the tables runValidation samples
tablesWithData(results) ==
    LET withData == SelectSeq(results,
            LAMBDA r : r.match /\ r.postgresCount.k = "number"
                               /\ r.postgresCount.n > 0)
    IN  [i \in 1..Min(MaxSampledTables, Len(withData)) |-> withData[i].table]

TableNamed(name) ==
    db.tables[CHOOSE i \in DOMAIN db.tables : db.tables[i].name = name]

CountTable ==
    /\ pc = "counts"
    /\ idx <= Len(db.tables)
    /\ countResults' = Append1(countResults, countTable(db.tables[idx]))
    /\ idx' = idx + 1
    /\ UNCHANGED <<db, host, pc, schemaResults, sampleDataResults, trace, args, ret>>

\* validateSchema up to the call of validateCommonTables
ListTables ==
    /\ pc = "counts"
    /\ idx > Len(db.tables)
    /\ pc' = "schema"
    /\ idx' = 1
    /\ trace' = trace \o [i \in DOMAIN missingInMySQL(db) |->
                            [event |-> "missing",
                             table |-> missingInMySQL(db)[i].name,
                             id |-> Null, equal |-> FALSE]]
    /\ UNCHANGED <<db, host, countResults, schemaResults, sampleDataResults, args, ret>>

SchemaTable ==
    /\ pc = "schema"
    /\ idx <= Len(commonTables(db))
    /\ schemaResults' = schemaResults \o validateCommonTable(commonTables(db)[idx])
    /\ idx' = idx + 1
    /\ UNCHANGED <<db, host, pc, countResults, sampleDataResults, trace, args, ret>>

StartSampling ==
    /\ pc = "schema"
    /\ idx > Len(commonTables(db))
    /\ pc' = "sample"
    /\ idx' = 1
    /\ UNCHANGED <<db, host, countResults, schemaResults, sampleDataResults, trace,
                   args, ret>>

SampleTable ==
    /\ pc = "sample"
    /\ idx <= Len(tablesWithData(countResults))
    /\ LET tableName == tablesWithData(countResults)[idx]
           r == sampleDataValidation(TableNamed(tableName), SampleSize)
       IN  /\ sampleDataResults' =
                  Append1(sampleDataResults,
                          [table |-> tableName, isValid |-> r.isValid])
           /\ trace' = trace \o [i \in DOMAIN r.log |->
                                    [event |-> "compare", table |-> tableName,
                                     id |-> r.log[i].id, equal |-> r.log[i].equal]]
    /\ idx' = idx + 1
    /\ UNCHANGED <<db, host, pc, countResults, schemaResults, args, ret>>

Summarize ==
    /\ pc = "sample"
    /\ idx > Len(tablesWithData(countResults))
    /\ pc' = "done"
    /\ LET successfulCounts == CountIf(countResults, LAMBDA r : r.match)
           totalTables == Len(countResults)
           successfulSchema == CountIf(schemaResults, LAMBDA r : r.status = "ok")
           totalValidatedTables == Len(schemaResults)
           successfulSampleData == CountIf(sampleDataResults, LAMBDA r : r.isValid)
       IN  ret' = [isValid |->
                      /\ successfulCounts = totalTables
                      /\ (totalValidatedTables = 0
                             \/ successfulSchema = totalValidatedTables)
                      /\ (Len(sampleDataResults) = 0
                             \/ successfulSampleData = Len(sampleDataResults)),
                   totalTables |-> totalTables,
                   tablesWithMatchingCounts |-> successfulCounts,
                   tablesWithValidSchema |-> successfulSchema,
                   tablesWithValidSampleData |-> successfulSampleData]
    /\ UNCHANGED <<db, host, idx, countResults, schemaResults, sampleDataResults,
                   trace, args>>

\* what can be wrong with a migrated table of n rows: the table or a column
\* was not created, its metadata cannot be read, a row was written twice
\* under a new id, the last row was not written or was written under another
\* id, or a row was written with another value
TableFaults(n) ==
    [kind : {"none", "absent", "columnDropped", "metadataFails"}, at : {0}]
        \cup [kind : {"rowAdded"}, at : {n + 1}]
        \cup [kind : {"rowDropped", "rowReplaced"}, at : {n} \ {0}]
        \cup [kind : {"rowDiffers"}, at : 1..n]

TableName(i) == "t" \o ToString(i)

\* table i with n rows in PostgreSQL, migrated with the fault
MigratedTable(i, n, fault) ==
    [name |-> TableName(i),
     exists |-> fault.kind # "absent",
     metadata |-> IF fault.kind = "metadataFails" THEN "fails" ELSE "ok",
     pgColumns |-> <<"id", "active">>,
     mysqlColumns |-> CASE fault.kind = "absent" -> <<>>
                        [] fault.kind = "columnDropped" -> <<"id">>
                        [] OTHER -> <<"id", "active">>,
     pgRows |-> [r \in 1..n |-> PgRow(r)],
     mysqlRows |->
        CASE fault.kind = "absent" -> <<>>
          [] fault.kind = "columnDropped" ->
                [r \in 1..n |-> MysqlRowWithoutColumn(r)]
          [] fault.kind = "rowDropped" ->
                [r \in 1..(n - 1) |-> MysqlRow(IF r < fault.at THEN r ELSE r + 1)]
          [] fault.kind = "rowDiffers" ->
                [r \in 1..n |-> IF r = fault.at THEN MysqlRowDiffering(r)
                                ELSE MysqlRow(r)]
          [] fault.kind = "rowReplaced" ->
                [r \in 1..n |-> MysqlRow(IF r < fault.at THEN r ELSE r + 1)]
          [] fault.kind = "rowAdded" -> [r \in 1..(n + 1) |-> MysqlRow(r)]
          [] OTHER -> [r \in 1..n |-> MysqlRow(r)]]

\* every table of at most MaxRows rows with one fault or none, and the table
\* of one row more than the sample takes, whole or without its last row
MigratedTables ==
    UNION {{MigratedTable(1, n, f) : f \in TableFaults(n)} : n \in 0..MaxRows}
        \cup {MigratedTable(1, SampleSize + 1, f) :
                f \in {[kind |-> "none", at |-> 0],
                       [kind |-> "rowDropped", at |-> SampleSize + 1]}}

Renamed(table, i) == [table EXCEPT !.name = TableName(i)]

Init ==
    /\ \E listing \in {<<"ok", "ok">>, <<"fails", "fails">>} :
       \E tables \in [1..NumTables -> MigratedTables] :
            db = [showTables |-> listing[1], informationSchema |-> listing[2],
                  tables |-> [i \in 1..NumTables |-> Renamed(tables[i], i)]]
    /\ pc = "counts"
    /\ idx = 1
    /\ countResults = <<>>
    /\ schemaResults = <<>>
    /\ sampleDataResults = <<>>
    /\ trace = <<>>
    /\ args = <<>>
    /\ ret = Undefined
    /\ host = UtcHost

Next ==
    \/ CountTable
    \/ ListTables
    \/ SchemaTable
    \/ StartSampling
    \/ SampleTable
    \/ Summarize

Spec == Init /\ [][Next]_vars

(***************************************************************************)
(* sampleDataValidation called on one table, for every way the rows of the *)
(* table can have reached MySQL: as written, with a value changed, not at  *)
(* all, or twice (a target without its primary key)                        *)
(***************************************************************************)
MaxSampleRows == 4
MaxExtraRows == 1

RECURSIVE Flatten(_)
Flatten(qq) == IF qq = <<>> THEN <<>> ELSE qq[1] \o Flatten(Tail(qq))

SampledTable(n, fate, extra, exists) ==
    [name |-> TableName(1),
     exists |-> exists,
     metadata |-> "ok",
     pgColumns |-> <<"id", "active">>,
     mysqlColumns |-> <<"id", "active">>,
     pgRows |-> [r \in 1..n |-> PgRow(r)],
     mysqlRows |->
        Flatten([r \in 1..n |->
                    CASE fate[r] = "same" -> <<MysqlRow(r)>>
                      [] fate[r] = "differs" -> <<MysqlRowDiffering(r)>>
                      [] fate[r] = "twice" -> <<MysqlRow(r), MysqlRow(r)>>
                      [] OTHER -> <<>>])
            \o [r \in 1..extra |-> MysqlRow(n + r)]]

InitSample ==
    /\ \E n \in 0..MaxSampleRows :
       \E fate \in [1..n -> {"same", "differs", "absent", "twice"}] :
       \E extra \in 0..MaxExtraRows :
       \E exists \in BOOLEAN :
            db = [showTables |-> "ok", informationSchema |-> "ok",
                  tables |-> <<SampledTable(n, fate, extra, exists)>>]
    /\ args \in [tableName : {TableName(1)}, sampleSize : 1..SampleSize]
    /\ pc = "call"
    /\ idx = 0
    /\ countResults = <<>>
    /\ schemaResults = <<>>
    /\ sampleDataResults = <<>>
    /\ trace = <<>>
    /\ ret = Undefined
    /\ host = UtcHost

CallSampleDataValidation ==
    /\ pc = "call"
    /\ pc' = "return"
    /\ ret' = sampleDataValidation(TableNamed(args.tableName), args.sampleSize)
    /\ UNCHANGED <<db, host, idx, countResults, schemaResults, sampleDataResults,
                   trace, args>>

NextSample == CallSampleDataValidation

SpecSample == InitSample /\ [][NextSample]_vars

(***************************************************************************)
(* validateTableCounts, then validateMigration, on the same two databases  *)
(***************************************************************************)
InitCounts ==
    /\ \E tables \in [1..NumTables -> MigratedTables] :
            db = [showTables |-> "ok", informationSchema |-> "ok",
                  tables |-> [i \in 1..NumTables |-> Renamed(tables[i], i)]]
    /\ pc = "counts"
    /\ idx = 1
    /\ countResults = <<>>
    /\ schemaResults = <<>>
    /\ sampleDataResults = <<>>
    /\ trace = <<>>
    /\ args = <<>>
    /\ ret = [validationResults |-> <<>>]
    /\ host = UtcHost

\* validateTableCounts returns its results
ReturnCounts ==
    /\ pc = "counts"
    /\ idx > Len(db.tables)
    /\ pc' = "migration"
    /\ idx' = 1
    /\ UNCHANGED <<db, host, countResults, schemaResults, sampleDataResults, trace,
                   args, ret>>

ValidateMigrationTable ==
    /\ pc = "migration"
    /\ idx <= Len(db.tables)
    /\ ret' = [validationResults |->
                  Append1(ret.validationResults,
                          validateMigrationTable(db.tables[idx]))]
    /\ idx' = idx + 1
    /\ UNCHANGED <<db, host, pc, countResults, schemaResults, sampleDataResults,
                   trace, args>>

ReturnMigration ==
    /\ pc = "migration"
    /\ idx > Len(db.tables)
    /\ pc' = "return"
    /\ UNCHANGED <<db, host, idx, countResults, schemaResults, sampleDataResults,
                   trace, args, ret>>

NextCounts ==
    \/ CountTable
    \/ ReturnCounts
    \/ ValidateMigrationTable
    \/ ReturnMigration

SpecCounts == InitCounts /\ [][NextCounts]_vars

(***************************************************************************)
(* migrateData (migrate.ts): for every table of the source list, read the  *)
(* rows, empty the target table and insert the rows one by one; an error   *)
(* in any of these steps is caught and ends the work on that table.  The   *)
(* batches of the insert loop only group the progress log.  Any statement  *)
(* can fail, the DELETE always does on a table the target lacks.           *)
(***************************************************************************)
Outcomes == {"ok", "fails"}

\* the catch block leaving the loop over the tables
afterCatchLeaveLoop(i) == Len(db.tables) + 1

\* the loop index after the catch block of a table: the next table
nextTableAfterCatch(i) == i + 1

Event(event, table, id, ok) ==
    [event |-> event, table |-> table, id |-> id, equal |-> ok]

\* the source tables and what the target holds before the migration:
\* nothing, the table still empty, or the table with a row of an earlier run
UnmigratedTable(n, target) ==
    [name |-> TableName(1),
     exists |-> target # "absent",
     metadata |-> "ok",
     pgColumns |-> <<"id", "active">>,
     mysqlColumns |-> IF target = "absent" THEN <<>> ELSE <<"id", "active">>,
     pgRows |-> [r \in 1..n |-> PgRow(r)],
     mysqlRows |-> IF target = "stale" THEN <<MysqlRowDiffering(1)>> ELSE <<>>]

UnmigratedTables ==
    {UnmigratedTable(n, target) :
        n \in 0..MaxRows, target \in {"absent", "empty", "stale"}}

InitMigrate ==
    /\ \E tables \in [1..NumTables -> UnmigratedTables] :
            db = [showTables |-> "ok", informationSchema |-> "ok",
                  tables |-> [i \in 1..NumTables |-> Renamed(tables[i], i)]]
    /\ host = UtcHost
    /\ pc = "start"
    /\ idx = 1
    /\ countResults = <<>>
    /\ schemaResults = <<>>
    /\ sampleDataResults = <<>>
    /\ trace = <<>>
    /\ args = [row |-> 0]
    /\ ret = Undefined

\* getPostgresTables, outside every try: its failure rejects migrateData
GetPostgresTables ==
    /\ pc = "start"
    /\ \E outcome \in Outcomes :
            pc' = IF outcome = "ok" THEN "migrate" ELSE "rejected"
    /\ UNCHANGED <<db, host, idx, countResults, schemaResults,
                   sampleDataResults, trace, args, ret>>

\* SELECT * FROM t ORDER BY id; a table without rows is left as it is
ReadTable ==
    /\ pc = "migrate"
    /\ idx <= Len(db.tables)
    /\ \E outcome \in Outcomes :
        LET table == db.tables[idx]
        IN  IF outcome = "fails"
            THEN /\ trace' = trace \o << Event("read", table.name, Null, FALSE),
                                          Event("giveUp", table.name, Null, FALSE) >>
                 /\ idx' = nextTableAfterCatch(idx)
                 /\ UNCHANGED <<pc, args>>
            ELSE IF Len(table.pgRows) = 0
            THEN /\ trace' = Append1(trace, Event("read", table.name, Null, TRUE))
                 /\ idx' = idx + 1                       \* continue
                 /\ UNCHANGED <<pc, args>>
            ELSE /\ trace' = Append1(trace, Event("read", table.name, Null, TRUE))
                 /\ pc' = "clear"
                 /\ UNCHANGED <<idx, args>>
    /\ UNCHANGED <<db, host, countResults, schemaResults, sampleDataResults, ret>>

\* SET FOREIGN_KEY_CHECKS = 0, DELETE FROM t, ALTER TABLE t AUTO_INCREMENT = 1
ClearTable ==
    /\ pc = "clear"
    /\ \E outcome \in Outcomes :
        LET table == db.tables[idx]
        IN  IF outcome = "fails" \/ ~table.exists
            THEN /\ trace' = Append1(trace, Event("giveUp", table.name, Null, FALSE))
                 /\ idx' = nextTableAfterCatch(idx)
                 /\ pc' = "migrate"
                 /\ UNCHANGED <<db, args>>
            ELSE /\ db' = [db EXCEPT !.tables[idx].mysqlRows = <<>>]
                 /\ pc' = "insert"
                 /\ args' = [row |-> 1]
                 /\ UNCHANGED <<idx, trace>>
    /\ UNCHANGED <<host, countResults, schemaResults, sampleDataResults, ret>>

\* one INSERT of the loop over the rows: the row is converted and written,
\* or the statement fails and the catch block ends the table
InsertRow ==
    /\ pc = "insert"
    /\ args.row <= Len(db.tables[idx].pgRows)
    /\ \E outcome \in Outcomes :
        LET table == db.tables[idx]
            pgRow == table.pgRows[args.row]
            converts == \A c \in DOMAIN pgRow : convertValue(pgRow[c][2]).ok
        IN  IF outcome = "fails" \/ ~converts
            THEN /\ trace' = trace \o
                        << Event("insert", table.name, Get(pgRow, "id"), FALSE),
                           Event("giveUp", table.name, Null, FALSE) >>
                 /\ idx' = nextTableAfterCatch(idx)
                 /\ pc' = "migrate"
                 /\ UNCHANGED <<db, args>>
            ELSE /\ trace' = Append1(trace,
                        Event("insert", table.name, Get(pgRow, "id"), TRUE))
                 /\ db' = [db EXCEPT !.tables[idx].mysqlRows =
                                        Append1(@, MigratedRow(pgRow))]
                 /\ args' = [row |-> args.row + 1]
                 /\ UNCHANGED <<pc, idx>>
    /\ UNCHANGED <<host, countResults, schemaResults, sampleDataResults, ret>>

\* SET FOREIGN_KEY_CHECKS = 1 after the last row
FinishTable ==
    /\ pc = "insert"
    /\ args.row > Len(db.tables[idx].pgRows)
    /\ \E outcome \in Outcomes :
            trace' = Append1(trace,
                Event(IF outcome = "ok" THEN "completed" ELSE "giveUp",
                      db.tables[idx].name, Null, outcome = "ok"))
    /\ idx' = idx + 1
    /\ pc' = "migrate"
    /\ UNCHANGED <<db, host, countResults, schemaResults, sampleDataResults,
                   args, ret>>

ReturnMigrate ==
    /\ pc = "migrate"
    /\ idx > Len(db.tables)
    /\ pc' = "return"
    /\ UNCHANGED <<db, host, idx, countResults, schemaResults,
                   sampleDataResults, trace, args, ret>>

NextMigrate ==
    \/ GetPostgresTables
    \/ ReadTable
    \/ ClearTable
    \/ InsertRow
    \/ FinishTable
    \/ ReturnMigrate

SpecMigrate == InitMigrate /\ [][NextMigrate]_vars

(***************************************************************************)
(* validateSchema called on databases whose tables are all listed in MySQL *)
(* and differ in their columns: spelled in another case, missing, added,   *)
(* none at all, or unreadable                                              *)
(***************************************************************************)
MaxSchemaTables == 2

PgColumnLists == { <<"id">>, <<"id", "Name">>, <<"ID", "name">>, <<"Name", "name">> }

MysqlColumnLists ==
    { <<>>, <<"id">>, <<"id", "name">>, <<"ID", "NAME">>, <<"id", "name", "extra">> }

SchemaTableOf(pgColumns, mysqlColumns, metadata) ==
    [name |-> TableName(1),
     exists |-> TRUE,
     metadata |-> metadata,
     pgColumns |-> pgColumns,
     mysqlColumns |-> mysqlColumns,
     pgRows |-> <<>>,
     mysqlRows |-> <<>>]

SchemaTables ==
    {SchemaTableOf(p, m, "ok") : p \in PgColumnLists, m \in MysqlColumnLists}
        \cup {SchemaTableOf(<<"id">>, <<"id">>, "fails")}

InitSchema ==
    /\ \E n \in 1..MaxSchemaTables :
       \E tables \in [1..n -> SchemaTables] :
            db = [showTables |-> "ok", informationSchema |-> "ok",
                  tables |-> [i \in 1..n |-> Renamed(tables[i], i)]]
    /\ pc = "schema"
    /\ idx = 1
    /\ countResults = <<>>
    /\ schemaResults = <<>>
    /\ sampleDataResults = <<>>
    /\ trace = <<>>
    /\ args = <<>>
    /\ ret = Undefined
    /\ host = UtcHost

\* return results
ReturnSchema ==
    /\ pc = "schema"
    /\ idx > Len(commonTables(db))
    /\ pc' = "return"
    /\ ret' = [results |-> schemaResults]
    /\ UNCHANGED <<db, host, idx, countResults, schemaResults, sampleDataResults,
                   trace, args>>

NextSchema ==
    \/ SchemaTable
    \/ ReturnSchema

SpecSchema == InitSchema /\ [][NextSchema]_vars

(***************************************************************************)
(* Pure functions, each applied once to arguments drawn from bounded sets  *)
(***************************************************************************)
MaxLength == 3
MaxPrecision == 3
MaxScale == 2

NoRun ==
    /\ host = UtcHost
    /\ db = [showTables |-> "ok", informationSchema |-> "ok", tables |-> <<>>]
    /\ idx = 0
    /\ countResults = <<>>
    /\ schemaResults = <<>>
    /\ sampleDataResults = <<>>
    /\ trace = <<>>

Frame == UNCHANGED <<db, host, idx, countResults, schemaResults, sampleDataResults,
                     trace, args>>

NullOr(S) == {Null} \cup {Num(n) : n \in S}

PgTypes ==
    DOMAIN typeMap(Null, Null, Null) \cup {"money", "int4", "constructor"}

InitMap ==
    /\ NoRun
    /\ pc = "call"
    /\ ret = Undefined
    /\ args \in [pgType : PgTypes, maxLength : NullOr(0..MaxLength),
                 precision : NullOr(0..MaxPrecision), scale : NullOr(0..MaxScale)]

CallMapType ==
    /\ pc = "call"
    /\ pc' = "return"
    /\ ret' = mapPostgresToMysqlType(args.pgType, args.maxLength,
                                     args.precision, args.scale)
    /\ Frame

NextMap == CallMapType

SpecMap == InitMap /\ [][NextMap]_vars

\* compareRowData on a source row and the target row migrateData wrote for
\* it, as written or with a column dropped, changed or added, on hosts in
\* the westernmost, the UTC and the easternmost time zone
TimeZones == {-43200000, 0, 50400000}

RowValues ==
    { DateAt(86400000, "pg"), DateAt(86400999, "pg"),
      Obj(<<>>, "pg"), Obj(<< <<"a", 1>> >>, "pg"),
      Obj(<< <<"b", 2>>, <<"a", 1>> >>, "pg"),
      Str("x"), Str("{\"a\":1}"), Num(2), Null }

PgRows ==
    {<< <<"id", Num(1)>>, <<"active", v1>>, <<c2, v2>> >> :
        v1 \in {Bool(TRUE), Bool(FALSE), Null},
        c2 \in {"created_at", "data"},
        v2 \in RowValues}

ChangedValues ==
    { Null, Num(0), Num(1), Num(2), Str("garbage"),
      Str("2001-01-04 00:00:01"), Str("{\"a\":2}"),
      Obj(<< <<"a", 1>> >>, "my") }

RowEdits ==
    [kind : {"none"}, at : {0}, to : {Null}]
        \cup [kind : {"drop"}, at : {2, 3}, to : {Null}]
        \cup [kind : {"set"}, at : {2, 3}, to : ChangedValues]

ExtraColumns == { <<>>, << <<"extra", Num(1)>> >>, << <<"extra", Str("y")>> >> }

EditedRow(row, edit, extra) ==
    (CASE edit.kind = "drop" -> SelectSeq(row, LAMBDA c : c[1] # row[edit.at][1])
       [] edit.kind = "set" -> [row EXCEPT ![edit.at] = <<row[edit.at][1], edit.to>>]
       [] OTHER -> row)
    \o extra

InitRow ==
    /\ db = [showTables |-> "ok", informationSchema |-> "ok", tables |-> <<>>]
    /\ host \in [timeZone : TimeZones]
    /\ idx = 0
    /\ countResults = <<>>
    /\ schemaResults = <<>>
    /\ sampleDataResults = <<>>
    /\ trace = <<>>
    /\ pc = "call"
    /\ ret = Undefined
    /\ \E pgRow \in PgRows : \E edit \in RowEdits : \E extra \in ExtraColumns :
            args = [pgRow |-> pgRow,
                    mysqlRow |-> EditedRow(MigratedRow(pgRow), edit, extra)]

CallCompareRowData ==
    /\ pc = "call"
    /\ pc' = "return"
    /\ ret' = compareRowData(args.pgRow, args.mysqlRow)
    /\ Frame

NextRow == CallCompareRowData

SpecRow == InitRow /\ [][NextRow]_vars

\* normalizeValue, then areValuesEqual, applied to the same pair of values
\* of every kind
AnyValues ==
    { Null, Undefined, Bool(TRUE), Bool(FALSE), Num(1), NaN,
      Str("x"), Str("{a:1}"), Str("{\"a\":1}"), Str(ToISOString(0)),
      Str("2001-01-02 00:00:00"),
      DateAt(0, "pg"), DateAt(0, "my"), InvalidDate("pg"), InvalidDate("my"),
      Obj(<< <<"a", 1>> >>, "pg"), Obj(<< <<"a", 1>> >>, "my"),
      Unserializable("pg"), Unserializable("my"),
      Buf(<<1>>, "pg"), Buf(<<1>>, "my") }

InitPair ==
    /\ NoRun
    /\ pc = "call"
    /\ ret = Undefined
    /\ args \in [value : AnyValues, referenceValue : AnyValues,
                 columnName : {"data", "created_at"}]

NormalizePair ==
    /\ pc = "call"
    /\ pc' = "normalized"
    /\ ret' = [normalized |-> normalizeValue(args.value, args.referenceValue)]
    /\ Frame

ComparePair ==
    /\ pc = "normalized"
    /\ pc' = "return"
    /\ ret' = [normalized |-> ret.normalized,
               equal |-> Bool(areValuesEqual(args.referenceValue, args.value,
                                             args.columnName))]
    /\ Frame

NextPair ==
    \/ NormalizePair
    \/ ComparePair

SpecPair == InitPair /\ [][NextPair]_vars

(***************************************************************************)
(* The life of the two connections: createConnections, the body of the     *)
(* caller, closeConnections                                                *)
(***************************************************************************)
Callers == {"runMigration", "runValidation", "executeWithConnections"}

Call(on, method) == [on |-> on, call |-> method]

\* createConnections: pgClient.connect(), then mysql.createConnection();
\* the catch ends pgClient in a try of its own and throws the error again
createConnections(pgConnect, mysqlConnect) ==
    IF pgConnect = "fails"
    THEN [rejected |-> TRUE, opened |-> {},
          calls |-> <<Call("pgClient", "connect"), Call("pgClient", "end")>>]
    ELSE IF mysqlConnect = "fails"
    THEN [rejected |-> TRUE, opened |-> {"pgClient"},
          calls |-> <<Call("pgClient", "connect"),
                      Call("mysqlConnection", "createConnection"),
                      Call("pgClient", "end")>>]
    ELSE [rejected |-> FALSE, opened |-> {"pgClient", "mysqlConnection"},
          calls |-> <<Call("pgClient", "connect"),
                      Call("mysqlConnection", "createConnection")>>]

\* closeConnections: both end() calls stand in one try; a rejected
\* pgClient.end() jumps to the catch, which logs
closeConnections(pgEnd) ==
    IF pgEnd = "fails"
    THEN <<Call("pgClient", "end")>>
    ELSE <<Call("pgClient", "end"), Call("mysqlConnection", "end")>>

\* runMigration's catch logs the error; runValidation's catch throws it
\* again; executeWithConnections has no catch
rethrows(caller) == caller # "runMigration"

InitConn ==
    /\ host = UtcHost
    /\ db = [showTables |-> "ok", informationSchema |-> "ok", tables |-> <<>>]
    /\ idx = 0
    /\ countResults = <<>>
    /\ schemaResults = <<>>
    /\ sampleDataResults = <<>>
    /\ trace = <<>>
    /\ pc = "create"
    /\ ret = [opened |-> {}, settled |-> "pending"]
    /\ \E caller \in Callers :
       \E pgConnect \in Outcomes : \E mysqlConnect \in Outcomes :
       \E body \in Outcomes :
       \E pgEnd \in Outcomes : \E mysqlEnd \in Outcomes :
            args = [caller |-> caller, pgConnect |-> pgConnect,
                    mysqlConnect |-> mysqlConnect, body |-> body,
                    pgEnd |-> pgEnd, mysqlEnd |-> mysqlEnd]

\* const connections = await createConnections(), outside the try
CreateConnections ==
    /\ pc = "create"
    /\ LET made == createConnections(args.pgConnect, args.mysqlConnect)
       IN  /\ trace' = trace \o made.calls
           /\ ret' = [opened |-> made.opened,
                      settled |-> IF made.rejected THEN "rejected" ELSE "pending"]
           /\ pc' = IF made.rejected THEN "settled" ELSE "body"
    /\ UNCHANGED <<db, host, idx, countResults, schemaResults,
                   sampleDataResults, args>>

\* the try block of the caller, which succeeds or throws
RunBody ==
    /\ pc = "body"
    /\ pc' = "finally"
    /\ UNCHANGED <<trace, ret>>
    /\ UNCHANGED <<db, host, idx, countResults, schemaResults,
                   sampleDataResults, args>>

\* finally { await closeConnections(connections) }, then the caller settles
CloseConnections ==
    /\ pc = "finally"
    /\ trace' = trace \o closeConnections(args.pgEnd)
    /\ ret' = [ret EXCEPT !.settled =
                    IF args.body = "fails" /\ rethrows(args.caller)
                    THEN "rejected" ELSE "fulfilled"]
    /\ pc' = "settled"
    /\ UNCHANGED <<db, host, idx, countResults, schemaResults,
                   sampleDataResults, args>>

NextConn == CreateConnections \/ RunBody \/ CloseConnections

SpecConn == InitConn /\ [][NextConn]_vars

\* the value conversion of migrateData applied to the columns of a source
\* row, with values of every kind PostgreSQL returns
ConvertValues ==
    { Null, Undefined, Bool(TRUE), Bool(FALSE), Num(0), Num(1), NaN,
      Str(""), Str("x"), Str("{\"a\":1}"),
      DateAt(0, "pg"), DateAt(86400999, "pg"), InvalidDate("pg"),
      Obj(<<>>, "pg"), Obj(<< <<"a", 1>> >>, "pg"), Unserializable("pg"),
      Buf(<<>>, "pg"), Buf(<<1>>, "pg") }

InitConvert ==
    /\ NoRun
    /\ pc = "call"
    /\ ret = Undefined
    /\ \E v1 \in ConvertValues : \E v2 \in ConvertValues :
            args = [pgRow |-> << <<"a", v1>>, <<"b", v2>> >>]

\* columns.map(col => ...): the values handed to the INSERT, or the
\* exception of a conversion
CallConvertRow ==
    /\ pc = "call"
    /\ pc' = "return"
    /\ ret' = [ok |-> \A i \in DOMAIN args.pgRow : convertValue(args.pgRow[i][2]).ok,
               row |-> MigratedRow(args.pgRow)]
    /\ Frame

SpecConvert == InitConvert /\ [][CallConvertRow]_vars

\* target-side values handed to normalizeValue
NormValues ==
    { Null, Undefined, Bool(TRUE), Bool(FALSE), Num(0), Num(1), Num(2),
      Str("1"), Str("0"), Str("true"), Str("x"), Str("{\"a\":1}"),
      Str("{ \"a\": 1 }"), Str(ToISOString(86400000)),
      Obj(<< <<"a", 1>> >>, "my1"), DateAt(0, "my2"), Buf(<<1>>, "my3") }

\* source-side values handed to normalizeValue
NormReferences ==
    { Null, Undefined, Bool(TRUE), Bool(FALSE), Num(1),
      Str("x"), Str("1"), Str("{\"a\":1}"), Str("{\"b\":2,\"a\":1}"),
      DateAt(0, "pg1"), Obj(<< <<"a", 1>> >>, "pg2"), Buf(<<1>>, "pg3") }

\* normalizeValue applied to a target value, then to its own result, with
\* the same reference
NormalizeOnce ==
    /\ pc = "call"
    /\ pc' = "once"
    /\ ret' = [once |-> normalizeValue(args.value, args.referenceValue)]
    /\ Frame

NormalizeTwice ==
    /\ pc = "once"
    /\ pc' = "return"
    /\ ret' = [once |-> ret.once,
               twice |-> normalizeValue(ret.once, args.referenceValue)]
    /\ Frame

InitNorm ==
    /\ NoRun
    /\ pc = "call"
    /\ ret = Undefined
    /\ args \in [value : NormValues, referenceValue : NormReferences]

CallNormalizeValue ==
    /\ pc = "call"
    /\ pc' = "return"
    /\ ret' = normalizeValue(args.value, args.referenceValue)
    /\ Frame

NextNorm == CallNormalizeValue

SpecNorm == InitNorm /\ [][NextNorm]_vars

NextTwice ==
    \/ NormalizeOnce
    \/ NormalizeTwice

SpecTwice == InitNorm /\ [][NextTwice]_vars

Cells == {"pg", "my"}

EqValues ==
    { Null, Undefined, Bool(TRUE), Bool(FALSE), Num(0), Num(1), NaN, Str("x"),
      Str(ToISOString(0)), Str("2001-01-01T00:00:00Z"),
      Str(ToISOString(86400000)), Str(ToISOString(86400001)),
      Str("{\"a\":1}"), InvalidDate("pg"), Unserializable("pg"),
      Unserializable("my"), Buf(<<1>>, "pg"), Buf(<<1>>, "my") }
        \cup {DateAt(t, r) : t \in {0, 1, 86400000, 86400001}, r \in Cells}
        \cup {Obj(m, r) : m \in Members, r \in Cells}

ColumnNames == {"id", "status", "data", "created_at", "birthdate"}

InitEq ==
    /\ NoRun
    /\ pc = "call"
    /\ ret = Undefined
    /\ args \in [value1 : EqValues, value2 : EqValues, columnName : ColumnNames]

CallAreValuesEqual ==
    /\ pc = "call"
    /\ pc' = "return"
    /\ ret' = Bool(areValuesEqual(args.value1, args.value2, args.columnName))
    /\ Frame

NextEq == CallAreValuesEqual

SpecEq == InitEq /\ [][NextEq]_vars

(***************************************************************************)
(* Properties of sampleDataValidation, under SpecSample                    *)
(***************************************************************************)
\* the sampled source rows: the first sampleSize rows by id
SourceSample ==
    SubSeq(db.tables[1].pgRows, 1, Min(args.sampleSize, Len(db.tables[1].pgRows)))

\* the positions of the sample whose id no target row carries
AbsentIds ==
    {i \in DOMAIN SourceSample :
        \/ ~db.tables[1].exists
        \/ \A j \in DOMAIN db.tables[1].mysqlRows :
              Get(db.tables[1].mysqlRows[j], "id") # Get(SourceSample[i], "id")}

\* C2: the table fails whenever a sampled source row has no target row of
\* the same id, at whichever position of the sample.
C2_AbsentRowFailsTheTable ==
    (pc = "return" /\ AbsentIds # {}) => ~ret.isValid

C2_Witness ==
    /\ pc = "return"
    /\ Len(SourceSample) = 3
    /\ AbsentIds = {2}
    /\ db.tables[1].exists
    /\ Len(getCorrespondingMySQLData(db.tables[1], {Num(1), Num(2), Num(3)})) = 3
    /\ ~ret.isValid

(***************************************************************************)
(* Properties of the type mapper, under SpecMap                            *)
(***************************************************************************)
\* C5: for numeric and decimal the mapper returns DECIMAL(precision,scale)
\* whenever precision and scale are both non-null, scale 0 included, and
\* DECIMAL(10,2) only when one of them is null.
C5_DecimalKeepsPrecisionAndScale ==
    (pc = "return" /\ args.pgType \in {"numeric", "decimal"}) =>
        ret = Str(IF args.precision # Null /\ args.scale # Null
                  THEN "DECIMAL(" \o ToString(args.precision.n) \o ","
                           \o ToString(args.scale.n) \o ")"
                  ELSE "DECIMAL(10,2)")

(***************************************************************************)
(* Properties of normalizeValue, under SpecNorm                            *)
(***************************************************************************)
BooleanRuleApplies ==
    /\ pc = "return"
    /\ args.referenceValue.k = "boolean"
    /\ ~IsNullish(args.value)

\* value == 1 || value == true over the values of the model: the number 1,
\* true, and the strings whose numeric value is 1
LooselyOne(v) == v \in {Num(1), Bool(TRUE), Str("1")}

\* C6 as stated: with a boolean reference and a non-null target the result
\* is the loose test target == 1 || target == true, so the string "1" gives
\* true.
C6_LooseBooleanRule ==
    BooleanRuleApplies => ret = Bool(LooselyOne(args.value))

\* C6 amended: with a boolean reference and a non-null target the result is
\* the strict test target === 1 || target === true: true for the number 1
\* and for true, false for every other target, the string "1" included.
C6_StrictBooleanRule ==
    BooleanRuleApplies => ret = Bool(args.value \in {Num(1), Bool(TRUE)})

C6_Witness ==
    /\ BooleanRuleApplies
    /\ args.value = Str("1")
    /\ ret = Bool(FALSE)

StringReferenceRuleApplies ==
    /\ pc = "return"
    /\ args.referenceValue.k = "string"
    /\ args.value.k \in {"object", "date", "buffer"}

\* C7 as stated: with a string reference and a structured target the result
\* is the serialized form of the reference.
C7_ReferenceSerialized ==
    StringReferenceRuleApplies =>
        ret = Str(JsonStringify(args.referenceValue).s)

\* C7 amended: with a string reference and a structured target the result
\* comes from the reference alone: the value the reference parses to as
\* JSON, or the raw reference string when it does not parse.
C7_ReferenceParsed ==
    StringReferenceRuleApplies =>
        /\ args.referenceValue = Str("{\"a\":1}") =>
                (ret.k = "object" /\ ret.kv = << <<"a", 1>> >>)
        /\ args.referenceValue = Str("{\"b\":2,\"a\":1}") =>
                (ret.k = "object" /\ ret.kv = << <<"b", 2>>, <<"a", 1>> >>)
        /\ args.referenceValue = Str("1") => ret = Num(1)
        /\ args.referenceValue = Str("x") => ret = Str("x")
        /\ ret = IF JsonParse(args.referenceValue.s).ok
                 THEN JsonParse(args.referenceValue.s).v
                 ELSE args.referenceValue

C7_Witness ==
    /\ StringReferenceRuleApplies
    /\ args.referenceValue = Str("{\"a\":1}")
    /\ args.value.k = "object"
    /\ ret.k = "object"

(***************************************************************************)
(* Properties of areValuesEqual, under SpecEq                              *)
(***************************************************************************)
BothValidDates ==
    /\ pc = "return"
    /\ IsDate(args.value1) /\ args.value1.valid
    /\ IsDate(args.value2) /\ args.value2.valid

\* C8: two valid dates are equal iff they are at most 86,400,000 ms apart.
C8_DateTolerance ==
    BothValidDates =>
        (ret = Bool(TRUE) <=> Abs(args.value1.t - args.value2.t) <= 86400000)

C8_Witness ==
    /\ BothValidDates
    /\ Abs(args.value1.t - args.value2.t) = 86400000
    /\ ret = Bool(TRUE)

TwoDifferentStrings ==
    /\ pc = "return"
    /\ args.value1.k = "string" /\ args.value2.k = "string"
    /\ args.value1.s # args.value2.s

\* C9: two different strings are equal only in a column whose name contains
\* _at or date, when both parse to valid instants at most 86,400,000 ms apart.
C9_TimestampStrings ==
    TwoDifferentStrings =>
        /\ ret = Bool(TRUE) =>
              /\ args.columnName \in {"created_at", "birthdate"}
              /\ DateParse(args.value1.s).valid /\ DateParse(args.value2.s).valid
              /\ Abs(DateParse(args.value1.s).t - DateParse(args.value2.s).t)
                    <= 86400000
        /\ args.columnName \in {"id", "status", "data"} => ret = Bool(FALSE)

C9_Witness ==
    /\ TwoDifferentStrings
    /\ args.columnName = "created_at"
    /\ DateParse(args.value1.s).valid /\ DateParse(args.value2.s).valid
    /\ DateParse(args.value1.s).t = DateParse(args.value2.s).t
    /\ ret = Bool(TRUE)

TwoStructuredValues ==
    /\ pc = "return"
    /\ args.value1.k \in {"object", "buffer"}
    /\ args.value2.k \in {"object", "buffer"}
    /\ args.value1 # args.value2

\* C10: two distinct structured values are equal iff both serialize and
\* their JSON texts are the same string; the same members in another order
\* are not equal.
C10_SerializedEquality ==
    TwoStructuredValues =>
        /\ ret = Bool(TRUE) <=>
              /\ JsonStringify(args.value1).ok /\ JsonStringify(args.value2).ok
              /\ JsonStringify(args.value1).s = JsonStringify(args.value2).s
        /\ ( /\ args.value1.k = "object" /\ args.value2.k = "object"
             /\ args.value1.kv = << <<"a", 1>>, <<"b", 2>> >>
             /\ args.value2.kv = << <<"b", 2>>, <<"a", 1>> >> )
              => ret = Bool(FALSE)
        /\ (~JsonStringify(args.value1).ok \/ ~JsonStringify(args.value2).ok)
              => ret = Bool(FALSE)

C10_Witness ==
    /\ TwoStructuredValues
    /\ args.value1.k = "object" /\ args.value2.k = "object"
    /\ args.value1.kv = << <<"a", 1>>, <<"b", 2>> >>
    /\ args.value2.kv = << <<"b", 2>>, <<"a", 1>> >>
    /\ ret = Bool(FALSE)

(***************************************************************************)
(* Properties of the validation run, under Spec                            *)
(***************************************************************************)
SchemaFinished == pc \in {"sample", "done"}

\* the tables of the source list that the target list lacks
AbsentFromTargetList ==
    {db.tables[i].name : i \in {j \in DOMAIN db.tables :
        ~InSeq(db.tables[j].name, getMysqlTableList(db))}}

EntriesOf(results, name) == {i \in DOMAIN results : results[i].table = name}

\* C1 as stated: the schema result holds a table_missing entry, and no
\* column_missing entry, for every source table absent from the target list.
C1_MissingTableReported ==
    SchemaFinished =>
        \A name \in AbsentFromTargetList :
            /\ \E i \in EntriesOf(schemaResults, name) :
                    schemaResults[i].status = "table_missing"
            /\ \A i \in EntriesOf(schemaResults, name) :
                    schemaResults[i].status # "column_missing"

\* C1 amended: the schema result holds no entry at all for a source table
\* absent from the target list, neither table_missing nor column_missing;
\* the table is only named in the log.
C1_MissingTableSkipped ==
    SchemaFinished =>
        \A name \in AbsentFromTargetList :
            /\ EntriesOf(schemaResults, name) = {}
            /\ \E i \in DOMAIN trace :
                    trace[i].event = "missing" /\ trace[i].table = name

C1_Witness ==
    /\ pc = "done"
    /\ TableName(2) \in AbsentFromTargetList
    /\ EntriesOf(schemaResults, TableName(2)) = {}
    /\ \E i \in EntriesOf(schemaResults, TableName(1)) :
            schemaResults[i].status = "ok"

\* the rows of a table that the sample takes
SampledIds(name) ==
    {Get(TableNamed(name).pgRows[i], "id") :
        i \in 1..Min(SampleSize, Len(TableNamed(name).pgRows))}

Compared(name) ==
    {trace[i].id : i \in {j \in DOMAIN trace :
        trace[j].event = "compare" /\ trace[j].table = name}}

\* the tables with equal, non-zero counts, in the order of the count results
Eligible ==
    SelectSeq(countResults,
              LAMBDA r : r.postgresCount.k = "number" /\ r.mysqlCount.k = "number"
                         /\ r.postgresCount.n = r.mysqlCount.n
                         /\ r.postgresCount.n > 0)

\* C3 as stated: a row that fails prevents neither the later rows of its
\* table nor the later tables from being evaluated: every sampled row of
\* every sampled table is compared.
C3_EvaluationContinues ==
    pc = "done" =>
        /\ \A i \in DOMAIN Eligible : i <= MaxSampledTables =>
                EntriesOf(sampleDataResults, Eligible[i].table) # {}
        /\ \A i \in DOMAIN sampleDataResults :
                (\E j \in DOMAIN trace :
                    /\ trace[j].event = "compare"
                    /\ trace[j].table = sampleDataResults[i].table
                    /\ ~trace[j].equal)
                => Compared(sampleDataResults[i].table)
                       = SampledIds(sampleDataResults[i].table)

\* C3 amended: the first sampled row of a table that fails comparison ends
\* the sampling of that table, whose later rows are not compared; the later
\* tables are still sampled: each of the first five tables with equal,
\* non-zero counts gets its result, whatever the results before it.
C3_FirstFailureEndsTheTable ==
    /\ \A i, j \in DOMAIN trace :
            (/\ i < j
             /\ trace[i].event = "compare" /\ ~trace[i].equal
             /\ trace[j].event = "compare")
            => trace[j].table # trace[i].table
    /\ pc = "done" =>
            /\ Len(sampleDataResults) = Min(MaxSampledTables, Len(Eligible))
            /\ \A i \in DOMAIN sampleDataResults :
                    sampleDataResults[i].table = Eligible[i].table

C3_Witness ==
    /\ pc = "done"
    /\ Len(sampleDataResults) = 2
    /\ ~sampleDataResults[1].isValid
    /\ sampleDataResults[2].isValid
    /\ Cardinality(SampledIds(TableName(1))) = 2
    /\ Compared(TableName(1)) = {Num(1)}
    /\ Compared(TableName(2)) = SampledIds(TableName(2))

\* the count results of the tables whose two counts differ
CountsDiffer(r) ==
    /\ r.postgresCount.k = "number" /\ r.mysqlCount.k = "number"
    /\ r.postgresCount.n # r.mysqlCount.n

\* the sampled rows of the table are in the target as migrateData wrote them
SampleIntact(name) ==
    \A i \in 1..Min(SampleSize, Len(TableNamed(name).pgRows)) :
        \E j \in DOMAIN TableNamed(name).mysqlRows :
            TableNamed(name).mysqlRows[j] = MysqlRow(i)

\* C4 as stated: a table whose counts differ has match=false and still gets
\* a sample result, a pass when its sampled rows are intact.
C4_SampleIndependentOfCount ==
    pc = "done" =>
        \A i \in DOMAIN countResults :
            (CountsDiffer(countResults[i]) /\ countResults[i].postgresCount.n > 0) =>
            /\ ~countResults[i].match
            /\ \E j \in EntriesOf(sampleDataResults, countResults[i].table) :
                    SampleIntact(countResults[i].table)
                        => sampleDataResults[j].isValid

\* C4 amended: a table whose counts differ has match=false and gets no
\* sample result in the run, also when its sampled rows are intact: only
\* tables with equal, non-zero counts are sampled.
C4_CountMismatchNotSampled ==
    pc = "done" =>
        \A i \in DOMAIN countResults : CountsDiffer(countResults[i]) =>
            /\ ~countResults[i].match
            /\ EntriesOf(sampleDataResults, countResults[i].table) = {}

C4_Witness ==
    /\ pc = "done"
    /\ \E i \in DOMAIN countResults :
            /\ countResults[i].postgresCount = Num(SampleSize + 1)
            /\ countResults[i].mysqlCount = Num(SampleSize)
            /\ ~countResults[i].match
            /\ SampleIntact(countResults[i].table)
            /\ EntriesOf(sampleDataResults, countResults[i].table) = {}

(***************************************************************************)
(* Properties of the schema diff, under SpecSchema                         *)
(***************************************************************************)
\* the column names of the model with the case folded
FoldedName ==
    ("id" :> "id") @@ ("ID" :> "id") @@ ("Name" :> "name") @@ ("name" :> "name")
        @@ ("NAME" :> "name") @@ ("extra" :> "extra")

\* the positions of the source columns no target column matches
UnmatchedColumns(table) ==
    {i \in DOMAIN table.pgColumns :
        \A j \in DOMAIN table.mysqlColumns :
            FoldedName[table.mysqlColumns[j]] # FoldedName[table.pgColumns[i]]}

StatusesOf(results, name) ==
    {results[i].status : i \in EntriesOf(results, name)}

Readable(table) == table.metadata = "ok" /\ Len(table.mysqlColumns) > 0

\* C11: a table whose metadata is read and whose target has a column gets
\* exactly one ok entry and nothing else when every source column has a
\* target column of the same name up to case; otherwise it gets one
\* column_missing entry per unmatched source column and no ok entry.  No
\* table has an ok entry together with an entry of another status.
C11_OkIffEveryColumnMatched ==
    pc = "return" =>
        \A t \in DOMAIN db.tables :
            LET table == db.tables[t]
                entries == EntriesOf(ret.results, table.name)
            IN  /\ Readable(table) =>
                      IF UnmatchedColumns(table) = {}
                      THEN /\ Cardinality(entries) = 1
                           /\ StatusesOf(ret.results, table.name) = {"ok"}
                      ELSE /\ Cardinality(entries)
                                = Cardinality(UnmatchedColumns(table))
                           /\ StatusesOf(ret.results, table.name) = {"column_missing"}
                           /\ \A i \in UnmatchedColumns(table) :
                                \E e \in entries :
                                    ret.results[e].issue = table.pgColumns[i]
                /\ "ok" \in StatusesOf(ret.results, table.name)
                      => StatusesOf(ret.results, table.name) = {"ok"}

C11_Witness ==
    /\ pc = "return"
    /\ Len(db.tables) = 2
    /\ db.tables[1].pgColumns = <<"ID", "name">>
    /\ db.tables[1].mysqlColumns = <<"id", "name", "extra">>
    /\ StatusesOf(ret.results, TableName(1)) = {"ok"}
    /\ db.tables[2].pgColumns = <<"Name", "name">>
    /\ db.tables[2].mysqlColumns = <<"id">>
    /\ Cardinality(EntriesOf(ret.results, TableName(2))) = 2
    /\ StatusesOf(ret.results, TableName(2)) = {"column_missing"}

\* the tables of the list other than table t, and their entries
Without(tables, t) ==
    SelectSeq(tables, LAMBDA table : table.name # tables[t].name)

EntriesOfOthers(results, name) ==
    SelectSeq(results, LAMBDA r : r.table # name)

\* C12: a table whose metadata query fails gets exactly one error entry and
\* no ok entry; the call returns, every table of the list has an entry, and
\* the entries of the other tables are those of the list without the
\* failing table.
C12_ErrorStaysWithItsTable ==
    pc = "return" =>
        /\ \A t \in DOMAIN db.tables : EntriesOf(ret.results, db.tables[t].name) # {}
        /\ \A t \in DOMAIN db.tables : db.tables[t].metadata = "fails" =>
                /\ Cardinality(EntriesOf(ret.results, db.tables[t].name)) = 1
                /\ StatusesOf(ret.results, db.tables[t].name) = {"error"}
                /\ EntriesOfOthers(ret.results, db.tables[t].name)
                        = validateCommonTables(Without(db.tables, t))

C12_Witness ==
    /\ pc = "return"
    /\ Len(db.tables) = 2
    /\ db.tables[1].metadata = "fails"
    /\ StatusesOf(ret.results, TableName(1)) = {"error"}
    /\ db.tables[2].metadata = "ok"
    /\ StatusesOf(ret.results, TableName(2)) = {"ok"}

(***************************************************************************)
(* Properties of the row counts, under SpecCounts                          *)
(***************************************************************************)
\* the rows of the table named in a result, in each database
SourceRows(name) == Len(TableNamed(name).pgRows)
TargetRows(name) == Len(TableNamed(name).mysqlRows)

\* C13: for every table whose two count queries succeed, both
\* validateTableCounts and validateMigration record the two counts and answer
\* match (isValid) exactly when the counts are the same number: a difference
\* of one row is a mismatch.
C13_MatchIffCountsEqual ==
    /\ \A i \in DOMAIN countResults :
            LET r == countResults[i]
            IN  TableNamed(r.table).exists =>
                    /\ r.postgresCount = Num(SourceRows(r.table))
                    /\ r.mysqlCount = Num(TargetRows(r.table))
                    /\ r.match <=> SourceRows(r.table) = TargetRows(r.table)
    /\ \A i \in DOMAIN ret.validationResults :
            LET r == ret.validationResults[i]
            IN  TableNamed(r.table).exists =>
                    /\ r.postgresCount = Num(SourceRows(r.table))
                    /\ r.mysqlCount = Num(TargetRows(r.table))
                    /\ r.isValid <=> SourceRows(r.table) = TargetRows(r.table)

C13_Witness ==
    /\ pc = "return"
    /\ countResults[1].postgresCount = Num(SampleSize + 1)
    /\ countResults[1].mysqlCount = Num(SampleSize)
    /\ ~countResults[1].match
    /\ ret.validationResults[1].postgresCount = Num(SampleSize + 1)
    /\ ret.validationResults[1].mysqlCount = Num(SampleSize)
    /\ ~ret.validationResults[1].isValid
    /\ countResults[2].match
    /\ countResults[2].postgresCount = Num(MaxRows)
    /\ ret.validationResults[2].isValid

(***************************************************************************)
(* Further properties of the type mapper, under SpecMap                    *)
(***************************************************************************)
\* the names of the translation table
TableNames == DOMAIN typeMap(Null, Null, Null)

\* C14: for every input the mapper returns a non-empty declaration string,
\* and TEXT for every type name that is not a name of the translation table.
C14_MapperTotal ==
    pc = "return" =>
        /\ ret.k = "string"
        /\ ret.k = "string" => ret.s # ""
        /\ args.pgType \notin TableNames => ret = Str("TEXT")

\* the declarations listed for the types that take no argument
ListedDeclaration ==
    [ bigint |-> "BIGINT", integer |-> "BIGINT", smallint |-> "SMALLINT",
      boolean |-> "BOOLEAN", text |-> "TEXT", date |-> "DATE", time |-> "TIME",
      real |-> "FLOAT", json |-> "JSON", jsonb |-> "JSON",
      uuid |-> "VARCHAR(36)", bytea |-> "LONGBLOB" ]
    @@ ("timestamp without time zone" :> "DATETIME")
    @@ ("timestamp with time zone" :> "DATETIME")
    @@ ("double precision" :> "DOUBLE")

\* C15: each type of the literal table maps to its listed declaration
\* whatever precision and scale are, and character varying / varchar map to
\* VARCHAR(maxLength) when maxLength is not null, 0 included, and to TEXT
\* when it is null.
C15_LiteralMapping ==
    pc = "return" =>
        /\ args.pgType \in DOMAIN ListedDeclaration =>
                ret = Str(ListedDeclaration[args.pgType])
        /\ args.pgType \in {"character varying", "varchar"} =>
                ret = Str(IF args.maxLength # Null
                          THEN "VARCHAR(" \o ToString(args.maxLength.n) \o ")"
                          ELSE "TEXT")

(***************************************************************************)
(* Properties of compareRowData, under SpecRow                             *)
(***************************************************************************)
\* the representation migrateData writes, for the values of the model
WrittenFor(value) ==
    CASE value = Bool(TRUE) -> Num(1)
      [] value = Bool(FALSE) -> Num(0)
      [] value.k = "date" /\ value.t \in {86400000, 86400999} ->
            Str("2001-01-02 00:00:00")
      [] value.k = "object" /\ value.kv = <<>> -> Str("{}")
      [] value.k = "object" /\ value.kv = << <<"a", 1>> >> -> Str("{\"a\":1}")
      [] value.k = "object" /\ value.kv = << <<"b", 2>>, <<"a", 1>> >> ->
            Str("{\"b\":2,\"a\":1}")
      [] OTHER -> value

\* the source row holds an id and, besides, only booleans, dates and JSON
\* values, and the target row holds what migrateData writes for each
RoundTripCase ==
    /\ pc = "return"
    /\ \A i \in DOMAIN args.pgRow :
            /\ i > 1 => args.pgRow[i][2].k \in {"boolean", "date", "object"}
            /\ Get(args.mysqlRow, args.pgRow[i][1]) = WrittenFor(args.pgRow[i][2])

\* C16: a source row of booleans, dates and JSON values compares equal to
\* the target row that holds 1/0, the YYYY-MM-DD HH:MM:SS string and the
\* JSON text migrateData writes for them, in every time zone of the host.
C16_RoundTrip ==
    RoundTripCase => ret = Returns(TRUE)

C16_Witness ==
    /\ RoundTripCase
    /\ host.timeZone = 50400000
    /\ Get(args.pgRow, "active") = Bool(FALSE)
    /\ Get(args.mysqlRow, "active") = Num(0)
    /\ Get(args.pgRow, "created_at") = DateAt(86400999, "pg")
    /\ Get(args.mysqlRow, "created_at") = Str("2001-01-02 00:00:00")
    /\ ret = Returns(TRUE)

\* the columns of the target row that the source row has too
SourceColumnsOf(mysqlRow, pgRow) ==
    SelectSeq(mysqlRow, LAMBDA c : \E i \in DOMAIN pgRow : pgRow[i][1] = c[1])

ColumnEqual(i) ==
    areValuesEqual(args.pgRow[i][2],
                   normalizeValue(Get(args.mysqlRow, args.pgRow[i][1]),
                                  args.pgRow[i][2]),
                   args.pgRow[i][1])

\* C17: compareRowData answers true exactly when every column of the source
\* row is equal to the target column of that name, and its outcome is the
\* outcome for the target row without the columns the source row lacks.
C17_SourceColumnsDecide ==
    pc = "return" =>
        /\ ret.result <=> \A i \in DOMAIN args.pgRow : ColumnEqual(i)
        /\ ret = compareRowData(args.pgRow,
                                SourceColumnsOf(args.mysqlRow, args.pgRow))

C17_Witness ==
    /\ pc = "return"
    /\ Get(args.mysqlRow, "extra") = Str("y")
    /\ Get(args.pgRow, "extra") = Undefined
    /\ Get(args.pgRow, "data") = Str("x")
    /\ Get(args.mysqlRow, "data") = Str("x")
    /\ ret = Returns(TRUE)

(***************************************************************************)
(* Properties of normalizeValue and areValuesEqual on every pair of        *)
(* values, under SpecPair                                                  *)
(***************************************************************************)
ValueKinds ==
    {"null", "undefined", "boolean", "number", "string", "date", "object", "buffer"}

\* the strings of the model that are not JSON texts
NotJson == {"x", "{a:1}", "2001-01-01T00:00:00.000Z", "2001-01-02 00:00:00"}

\* the strings of the model that are not dates
NotDates == {"x", "{a:1}", "{\"a\":1}"}

\* C18: normalizeValue and areValuesEqual answer for every pair of values
\* and never raise: normalizeValue returns a value, and the target string
\* itself when the reference is structured and the string is not JSON;
\* areValuesEqual returns a boolean, false for two distinct structured
\* values one of which cannot be serialized and for two different strings
\* one of which is not a date.
C18_NormalizerAndComparatorTotal ==
    /\ pc \in {"normalized", "return"} =>
            /\ ret.normalized.k \in ValueKinds
            /\ ( /\ args.referenceValue.k \in {"object", "buffer"}
                 /\ args.value.k = "string"
                 /\ args.value.s \in NotJson )
                    => ret.normalized = args.value
    /\ pc = "return" =>
            /\ ret.equal.k = "boolean"
            /\ ( /\ args.value.k = "object" /\ args.referenceValue.k = "object"
                 /\ args.value # args.referenceValue
                 /\ ~args.value.ser \/ ~args.referenceValue.ser )
                    => ret.equal = Bool(FALSE)
            /\ ( /\ args.value.k = "string" /\ args.referenceValue.k = "string"
                 /\ args.value # args.referenceValue
                 /\ args.value.s \in NotDates \/ args.referenceValue.s \in NotDates )
                    => ret.equal = Bool(FALSE)

C18_Witness ==
    /\ pc = "return"
    /\ args.referenceValue = Unserializable("pg")
    /\ args.value = Str("{a:1}")
    /\ ret.normalized = Str("{a:1}")
    /\ ret.equal = Bool(FALSE)

(***************************************************************************)
(* Further properties of areValuesEqual, under SpecEq                      *)
(***************************************************************************)
\* the two arguments are one and the same value: for a date, an object or a
\* buffer, the same cell
SameValue ==
    /\ pc = "return"
    /\ args.value1 = args.value2

\* C19: every value other than NaN is equal to itself under every column
\* name, an invalid date and an object that cannot be serialized included.
C19_Reflexive ==
    (SameValue /\ args.value1 # NaN) => ret = Bool(TRUE)

C19_Witness ==
    /\ SameValue
    /\ args.value1 = Unserializable("pg")
    /\ args.columnName = "status"
    /\ ret = Bool(TRUE)

(***************************************************************************)
(* Properties of normalizeValue applied twice, under SpecTwice             *)
(***************************************************************************)
BooleanOrDateReference ==
    /\ pc = "return"
    /\ args.referenceValue.k \in {"boolean", "date"}

\* C20: with a boolean or a date reference, normalizing the result of
\* normalizeValue again with the same reference gives that result again.
C20_Idempotent ==
    BooleanOrDateReference => ret.twice = ret.once

C20_Witness ==
    /\ BooleanOrDateReference
    /\ args.referenceValue = Bool(TRUE)
    /\ args.value = Num(1)
    /\ ret.once = Bool(TRUE)
    /\ ret.twice = Bool(TRUE)

(***************************************************************************)
(* Properties of migrateData, under SpecMigrate                            *)
(***************************************************************************)
\* the INSERTs attempted for the row id of a table
Attempts(table, id) ==
    {j \in DOMAIN trace :
        trace[j].event = "insert" /\ trace[j].table = table /\ trace[j].id = id}

\* C21: an INSERT that fails is attempted again before the table is given
\* up: no row whose INSERT failed was attempted once only.
C21_FailedInsertRetried ==
    \A i \in DOMAIN trace :
        (trace[i].event = "insert" /\ ~trace[i].equal)
            => Cardinality(Attempts(trace[i].table, trace[i].id)) > 1

\* the tables migrateData read, in the order it read them
TablesRead ==
    LET reads == SelectSeq(trace, LAMBDA e : e.event = "read")
    IN  [i \in DOMAIN reads |-> reads[i].table]

GivenUp(name) ==
    \E i \in DOMAIN trace : trace[i].event = "giveUp" /\ trace[i].table = name

\* C22: migrateData rejects only when the table list cannot be read; past
\* that it returns, and by then it has read every table of the list, in
\* the order of the list, whichever tables failed on the way.
C22_LaterTablesProcessed ==
    /\ pc = "rejected" => trace = <<>>
    /\ pc = "return" =>
            TablesRead = [i \in DOMAIN db.tables |-> db.tables[i].name]

C22_Witness ==
    /\ pc = "return"
    /\ GivenUp(TableName(1))
    /\ Attempts(TableName(1), Num(1)) # {}
    /\ ~GivenUp(TableName(2))
    /\ Len(db.tables[2].pgRows) = MaxRows
    /\ db.tables[2].mysqlRows = [r \in 1..MaxRows |-> MysqlRow(r)]

(***************************************************************************)
(* Further properties of sampleDataValidation, under SpecSample            *)
(***************************************************************************)
EmptySource == pc = "return" /\ Len(db.tables[1].pgRows) = 0

\* C23: a table without source rows passes, with no row compared, whatever
\* the target holds and also when the target lacks the table.
C23_EmptySamplePasses ==
    EmptySource => (ret.isValid /\ ret.log = <<>>)

C23_Witness ==
    /\ EmptySource
    /\ ~db.tables[1].exists
    /\ ret.isValid

(***************************************************************************)
(* Further properties of normalizeValue, under SpecNorm                    *)
(***************************************************************************)
ObjectLike(v) == v.k \in {"date", "object", "buffer"}

\* C24: the rules apply in order and the first that matches decides: a
\* null or undefined argument gives the target back; else a boolean
\* reference gives a boolean; else a date reference turns a string target
\* into a date, never into the value it holds as JSON, and gives any other
\* target back; and where no rule matches the target comes back unchanged.
C24_FirstMatchingRule ==
    pc = "return" =>
        IF IsNullish(args.value) \/ IsNullish(args.referenceValue)
        THEN ret = args.value
        ELSE IF args.referenceValue.k = "boolean"
        THEN ret \in {Bool(TRUE), Bool(FALSE)}
        ELSE IF args.referenceValue.k = "date"
        THEN IF args.value.k = "string"
             THEN ret.k = "date" /\ ret.ref = Fresh
             ELSE ret = args.value
        ELSE ( \/ args.referenceValue.k = "number"
               \/ ObjectLike(args.referenceValue) /\ args.value.k # "string"
               \/ args.referenceValue.k = "string" /\ ~ObjectLike(args.value) )
                => ret = args.value

C24_Witness ==
    /\ pc = "return"
    /\ args.referenceValue.k = "date"
    /\ args.value = Str("{\"a\":1}")
    /\ ret = InvalidDate(Fresh)

(***************************************************************************)
(* Further properties of compareRowData, under SpecRow                     *)
(***************************************************************************)
\* C25: a source row with a string in a column where the target row holds
\* a structured value is never judged equal: compareRowData returns false,
\* whatever the string is.
C25_StringNeverEqualsStructured ==
    ( /\ pc = "return"
      /\ \E i \in DOMAIN args.pgRow :
            /\ args.pgRow[i][2].k = "string"
            /\ Get(args.mysqlRow, args.pgRow[i][1]).k \in {"object", "date", "buffer"} )
        => ret = Returns(FALSE)

\* C26: a row with a boolean source value is judged equal only when the
\* target value is 1 or true for the source true, and 0 or false for the
\* source false.
C26_BooleanNeedsSameTruthValue ==
    ( /\ pc = "return"
      /\ Get(args.pgRow, "active").k = "boolean"
      /\ ret.result )
        => Get(args.mysqlRow, "active")
                \in (IF Get(args.pgRow, "active").b
                     THEN {Num(1), Bool(TRUE)} ELSE {Num(0), Bool(FALSE)})

\* C27: compareRowData returns false whenever the target row lacks a column
\* of the source row, also when the source value of the column is null.
C27_MissingColumnFails ==
    ( /\ pc = "return"
      /\ \E i \in DOMAIN args.pgRow :
            \A j \in DOMAIN args.mysqlRow : args.mysqlRow[j][1] # args.pgRow[i][1] )
        => ret = Returns(FALSE)

(***************************************************************************)
(* Properties of the value conversion of migrateData, under SpecConvert    *)
(***************************************************************************)
\* C29: the conversion turns null and undefined into null, a boolean into
\* 1 or 0, a date into a string and a JSON value into its text, and hands
\* numbers, strings and byte blobs to the INSERT as they were read.
C29_BlobsInsertedAsRead ==
    (pc = "return" /\ ret.ok) =>
        \A i \in DOMAIN args.pgRow :
            LET read == args.pgRow[i][2]
                written == ret.row[i][2]
            IN  /\ read.k \in {"null", "undefined"} => written = Null
                /\ read.k = "boolean" => written = Num(IF read.b THEN 1 ELSE 0)
                /\ read.k \in {"date", "object"} => written.k = "string"
                /\ read.k \in {"number", "string", "buffer"} => written = read

(***************************************************************************)
(* Properties of the connection life cycle, under SpecConn                 *)
(***************************************************************************)
EndIssued(connection) ==
    \E i \in DOMAIN trace : trace[i] = Call(connection, "end")

\* C28: when runMigration, runValidation or executeWithConnections has
\* settled, an end() has been issued on every connection createConnections
\* opened: on both after the body ran, whether it threw or not and whether
\* pgClient.end() failed or not, and on the PostgreSQL connection when
\* the MySQL connect failed.
C28_EveryOpenedConnectionEnded ==
    pc = "settled" => \A connection \in ret.opened : EndIssued(connection)

(***************************************************************************)
(* A source table absent from the target, under Spec                       *)
(***************************************************************************)
AbsentTables == {t \in DOMAIN db.tables : ~db.tables[t].exists}

\* C30: when runValidation returns and some source table does not exist in
\* the target, isValid is false: the table has no schema entry, its count
\* entry holds ERROR for both counts and match = false, every table of the
\* source has its count entry in order, and fewer tables match than were
\* counted.
C30_AbsentTableInvalidates ==
    (pc = "done" /\ AbsentTables # {}) =>
        /\ ~ret.isValid
        /\ ret.tablesWithMatchingCounts < ret.totalTables
        /\ Len(countResults) = Len(db.tables)
        /\ \A t \in DOMAIN db.tables : countResults[t].table = db.tables[t].name
        /\ \A t \in AbsentTables :
                /\ countResults[t].postgresCount = Str("ERROR")
                /\ countResults[t].mysqlCount = Str("ERROR")
                /\ ~countResults[t].match
                /\ EntriesOf(schemaResults, db.tables[t].name) = {}

\* the first table is absent, a later one is counted and matches, and the
\* schema and the samples of the tables present are in order
C30_Witness ==
    /\ pc = "done"
    /\ 1 \in AbsentTables
    /\ \E t \in DOMAIN countResults : t > 1 /\ countResults[t].match
    /\ \A i \in DOMAIN schemaResults : schemaResults[i].status = "ok"
    /\ \A i \in DOMAIN sampleDataResults : sampleDataResults[i].isValid
    /\ ~ret.isValid

====
